---------------------------- MODULE Spec2Model ----------------------------
(***************************************************************************)
(* A model of go-cfr's disk-backed ReservoirBuffer (package ldbstore), of   *)
(* the tabular PolicyTable and of the two traversal engines,               *)
(* RobustSamplingCFR and ChanceSamplingCFR (package cfr).                  *)
(*                                                                         *)
(* The reservoir buffer is modelled at the granularity of the statements   *)
(* of AddSample, so that concurrent callers interleave between them; the   *)
(* LevelDB store is an ordered map from byte-string keys to values, kept   *)
(* as a sequence of records sorted by bytewise key order.                  *)
(***************************************************************************)
EXTENDS Integers, Sequences, FiniteSets, TLC

(***************************************************************************)
(* Bounds of the model.                                                    *)
(***************************************************************************)
\* Largest capacity (maxSize) a buffer is constructed with in SpecRB.
MaxCap == 2
\* Largest running count n reached in SpecRB.
MaxAdds == 3
\* Largest number of process restarts in SpecResume.
MaxRestarts == 1
\* Capacity of the buffer of SpecOrder: the smallest one whose slot indices
\* reach 256, the first index whose key sorts before a smaller index's key.
BigCap == 257
\* Largest capacity and largest number of samples in SpecUniform.
UCap == 3
UAdds == 5
\* Largest number of children of a node, and largest iteration counter.
MaxChildren == 2
MaxIter == 3
\* Largest k of a RobustSamplingCFR, and largest number of calls of Run.
MaxK == 2
MaxRuns == 2

\* Goroutines calling AddSample concurrently.
Workers == {"w1", "w2"}
\* Sample payloads passed to AddSample in SpecRB.
Samples == {"sA", "sB"}
\* Directory paths a store can live at.
Paths == {"p1", "p2"}
\* Infoset keys of the nodes passed to GetPolicy.
Keys == {"k1", "k2"}

VARIABLES
    \* ---- ReservoirBuffer fields (src/unnamed/part_000:234-245) ----
    path,       \* b.path
    opts,       \* b.opts
    maxSize,    \* b.maxSize
    n,          \* b.n
    db,         \* b.db: "nil" (zero value), "open" or "closed"
    mx,         \* b.mx: TRUE while locked
    \* ---- the environment of the buffer ----
    wk,         \* per goroutine: position in AddSample and its locals
    disk,       \* per path: the LevelDB store there, or Missing
    saved,      \* the metadata bytes written by the last GobEncode (<<>>: none)
    ret,        \* what the last returning call returned
    panicked,   \* the process died of a panic
    \* ---- history variables ----
    hist,       \* the AddSample calls that returned, in order
    snap,       \* the buffer as it was when `saved` was encoded
    original,   \* the buffer is still the one NewReservoirBuffer built
    restarts,   \* how many times the process ended
    dist,       \* per store content: the number of draw sequences of the
                \* calls so far that lead to it (empty: not counted)
    \* ---- PolicyTable fields (src/unnamed/part_001:17-24) ----
    iter,           \* pt.iter
    policiesByKey,  \* pt.policiesByKey: infoset key -> *policy.Policy
    mayNeedUpdate,  \* pt.mayNeedUpdate: the set of touched *policy.Policy
    heap,           \* the Policy objects allocated so far; a pointer is an index
    ptRet,          \* the last PolicyTable call: its arguments and what it returned
    params,         \* pt.params
    \* ---- history variables ----
    born,           \* per infoset key: the Policy first created for it
    fetched,        \* per Policy: how often GetPolicy returned it since the
                    \* last Update (cur) and before that Update (swept);
                    \* 2 stands for twice or more
    \* ---- a traversal engine and its call of Run ----
    cfr,               \* the engine: its kind, c.k and c.slicePool
    game,              \* the game tree whose root Run is called on
    stack,             \* the activations of runHelper, the root's first
    sampledActions,    \* Run's map sampledActions
    traversingPlayer,  \* Run's traversingPlayer
    runRet,            \* what the last call of Run returned
    \* ---- history variables ----
    calls,             \* the calls this Run made on nodes and policies, in order
    runs,              \* how many times Run was called
    lastRun,           \* sampledActions as the previous Run left it
    \* ---- MarshalBinary and UnmarshalBinary ----
    encoded,           \* the bytes the last MarshalBinary returned (<<>>: none)
    \* ---- history variable ----
    marshalled         \* the table as it was when the bytes were encoded
                       \* (table) and the table the last UnmarshalBinary
                       \* was called on (into)

rbvars == <<path, opts, maxSize, n, db, mx, wk, disk, saved, ret, panicked,
            hist, snap, original, restarts, dist>>

ptvars == <<iter, policiesByKey, mayNeedUpdate, heap, ptRet, params, born, fetched>>

trvars == <<cfr, game, stack, sampledActions, traversingPlayer, runRet,
            calls, runs, lastRun>>

gobvars == <<encoded, marshalled>>

vars == <<rbvars, ptvars, trvars, gobvars>>

\* What the reservoir buffer's operations leave alone, and the policy table's.
nonrb == <<ptvars, trvars, gobvars>>
nonpt == <<rbvars, trvars, gobvars>>
nontr == <<rbvars, gobvars>>

(***************************************************************************)
(* Keys: binary.PutUvarint and LevelDB's bytewise comparer.                *)
(***************************************************************************)
RECURSIVE PutUvarint(_)
\* binary.PutUvarint: 7 bits per byte, least significant group first, the
\* high bit set on every byte but the last.
PutUvarint(x) ==
    IF x < 128 THEN <<x>>
    ELSE <<(x % 128) + 128>> \o PutUvarint(x \div 128)

RECURSIVE BytesLess(_, _)
\* bytes.Compare(a, b) < 0: the order in which LevelDB iterates its keys.
BytesLess(a, b) ==
    IF b = <<>> THEN FALSE
    ELSE IF a = <<>> THEN TRUE
    ELSE IF a[1] # b[1] THEN a[1] < b[1]
    ELSE BytesLess(Tail(a), Tail(b))

(***************************************************************************)
(* The store: a sequence of [key, value] records in ascending key order.   *)
(***************************************************************************)
\* What is at a path: no store, or a store with its records.
Missing == [exists |-> FALSE, kv |-> <<>>]
EmptyStore == [exists |-> TRUE, kv |-> <<>>]

StoreKeys(st) == {st[i].key : i \in 1..Len(st)}

StoreGet(st, k) == st[CHOOSE i \in 1..Len(st) : st[i].key = k].value

\* db.Put: replace the value when the key is present, else insert the record
\* at its place in key order.
dbPut(st, k, v) ==
    IF k \in StoreKeys(st)
    THEN [i \in 1..Len(st) |-> IF st[i].key = k THEN [key |-> k, value |-> v]
                                               ELSE st[i]]
    ELSE LET below == Cardinality({i \in 1..Len(st) : BytesLess(st[i].key, k)})
         IN  SubSeq(st, 1, below) \o <<[key |-> k, value |-> v]>>
                 \o SubSeq(st, below + 1, Len(st))

\* gob encoding of a sample, and its decoding.
gobEncodeSample(s) == <<"gob", s>>
gobDecodeSample(v) == v[2]

\* putSample(idx, s): the store after the write.
putSample(st, idx, s) == dbPut(st, PutUvarint(idx), gobEncodeSample(s))

\* GetSamples: a scan of the whole store in key order, each value decoded.
GetSamples(st) == [i \in 1..Len(st) |-> gobDecodeSample(st[i].value)]

(***************************************************************************)
(* Options and leveldb.OpenFile.                                           *)
(***************************************************************************)
NilOpts == [nil |-> TRUE, ErrorIfMissing |-> FALSE]
Options(eim) == [nil |-> FALSE, ErrorIfMissing |-> eim]

\* Whether a handle on the store at p is open (LevelDB locks the directory).
Locked(p) == db = "open" /\ path = p

\* leveldb.OpenFile(p, o): [err, store]; store is what is at p afterwards.
OpenFile(p, o) ==
    IF Locked(p) THEN [err |-> TRUE, store |-> disk[p]]
    ELSE IF disk[p] = Missing
         THEN IF o.ErrorIfMissing THEN [err |-> TRUE, store |-> Missing]
                                  ELSE [err |-> FALSE, store |-> EmptyStore]
         ELSE [err |-> FALSE, store |-> disk[p]]

(***************************************************************************)
(* Goroutine locals.                                                       *)
(***************************************************************************)
NoSample == "none"
Idle == [pc |-> "idle", s |-> NoSample, n |-> 0, m |-> 0, slot |-> -1]

NoRet == [op |-> "none", err |-> FALSE, val |-> <<>>]
NoSnap == [path |-> "", maxSize |-> 0, n |-> 0, calls |-> 0, store |-> Missing,
           quiet |-> FALSE, fresh |-> FALSE, original |-> FALSE]

\* The buffer was built, by NewReservoirBuffer or by GobDecode: until then no
\* caller holds it.
Built == path # ""

\* No outcome is counted.
NoDist == <<>>

Quiet == \A w \in Workers : wk[w].pc = "idle"

(***************************************************************************)
(* NewReservoirBuffer(p, o, c) on a machine with no store yet.             *)
(***************************************************************************)
NoCall == [op |-> "none", key |-> "", nc |-> 0, panic |-> FALSE, val |-> 0]

\* The discount schedules a table is built with: plain accumulation and
\* flooring of negative regrets.
DiscountParams == {"vanilla", "plus"}

\* No Policy was fetched.
NoFetch == [cur |-> <<>>, swept |-> <<>>]

\* NewPolicyTable(dp).
NewPolicyTable(dp) ==
    /\ params = dp
    /\ iter = 1
    /\ policiesByKey = <<>>
    /\ mayNeedUpdate = {}
    /\ heap = <<>>
    /\ ptRet = NoCall
    /\ born = <<>>
    /\ fetched = NoFetch

\* What Run returned: nothing yet.
NoRunRet == [done |-> FALSE, panic |-> FALSE, val |-> <<0, 1>>]

\* MarshalBinary was not called.
NoBytes ==
    /\ encoded = <<>>
    /\ marshalled = [table |-> <<>>, into |-> <<>>]

\* No traversal engine exists.
NoEngine ==
    /\ NoBytes
    /\ cfr = [kind |-> "none", k |-> 0, slicePool |-> {}]
    /\ game = <<>>
    /\ stack = <<>>
    /\ sampledActions = <<>>
    /\ traversingPlayer = 0
    /\ runRet = NoRunRet
    /\ calls = <<>>
    /\ runs = 0
    /\ lastRun = <<>>

\* The part of the process the reservoir buffer does not touch: a new table
\* and no engine.
NoTable == NewPolicyTable("vanilla") /\ NoEngine

RBInit ==
    \E p \in Paths, c \in 1..MaxCap, o \in {NilOpts, Options(FALSE), Options(TRUE)} :
        /\ ~o.ErrorIfMissing      \* else OpenFile fails and no buffer is returned
        /\ path = p
        /\ opts = o
        /\ maxSize = c
        /\ n = 0
        /\ db = "open"
        /\ mx = FALSE
        /\ wk = [w \in Workers |-> Idle]
        /\ disk = [q \in Paths |-> IF q = p THEN EmptyStore ELSE Missing]
        /\ saved = <<>>
        /\ ret = NoRet
        /\ panicked = FALSE
        /\ hist = <<>>
        /\ snap = NoSnap
        /\ original = TRUE
        /\ restarts = 0
        /\ dist = NoDist
        /\ NoTable

(***************************************************************************)
(* AddSample, statement by statement.                                      *)
(***************************************************************************)
\* Mutant of CanLock: AddSample without the mutex.
CanLockAlways == TRUE

\* b.mx.Lock() returns only when the mutex is free.
CanLock == mx = FALSE

\* Mutant of Intn: the draw is taken from 1..k.
IntnFromOne(k) == 1 .. k

\* rand.Intn(k): the values it can return.
Intn(k) == 0 .. (k - 1)

\* Mutant of InFill: the fill branch stops one call early.
InFillStrict(cnt, cap) == cnt < cap

\* line 274: the fill branch is taken.
InFill(cnt, cap) == cnt <= cap

\* Mutant of FillSlot: the fill branch writes slot n instead of n-1.
FillSlotNext(cnt) == cnt

\* line 275: the slot the fill branch writes.
FillSlot(cnt) == cnt - 1

\* Mutant of Keeps: a draw equal to the capacity is kept too.
KeepsInclusive(m, cap) == m <= cap

\* line 278: the drawn slot is inside the reservoir.
Keeps(m, cap) == m < cap

\* AddSample as a function of the store: what a call that observes the count
\* cnt and draws m leaves in the store st.
SeqResult(st, cnt, cap, m, s) ==
    IF InFill(cnt, cap) THEN putSample(st, FillSlot(cnt), s)
    ELSE IF Keeps(m, cap) THEN putSample(st, m, s)
    ELSE st

\* The draws of a call that observes cnt: none is made in the fill branch.
Draws(cnt, cap) == IF InFill(cnt, cap) THEN {0} ELSE Intn(cnt)

RECURSIVE SumOver(_, _)
\* The sum of f[x] over the x of S.
SumOver(S, f) ==
    IF S = {} THEN 0
    ELSE LET x == CHOOSE y \in S : TRUE
         IN  f[x] + SumOver(S \ {x}, f)

\* The outcome counts after one more call: every counted outcome is followed
\* by each draw of the call once.
Spread(d, cnt, cap, s) ==
    LET outs == {SeqResult(st, cnt, cap, m, s) : st \in DOMAIN d, m \in Draws(cnt, cap)}
        ways(o) == [st \in DOMAIN d |->
                      d[st] * Cardinality({m \in Draws(cnt, cap) :
                                              SeqResult(st, cnt, cap, m, s) = o})]
    IN  [o \in outs |-> SumOver(DOMAIN d, ways(o))]

AddSampleLock(w, s) ==
    /\ ~panicked
    /\ Built
    /\ wk[w].pc = "idle"
    /\ CanLock
    /\ mx' = TRUE
    /\ wk' = [wk EXCEPT ![w] = [Idle EXCEPT !.pc = "locked", !.s = s]]
    /\ snap' = [snap EXCEPT !.fresh = FALSE]
    /\ UNCHANGED <<path, opts, maxSize, n, db, disk, saved, ret, panicked,
                   hist, original, restarts, dist, nonrb>>

\* b.n++
AddSampleInc(w) ==
    /\ ~panicked
    /\ wk[w].pc = "locked"
    /\ n' = n + 1
    /\ wk' = [wk EXCEPT ![w].pc = "inced"]
    /\ UNCHANGED <<path, opts, maxSize, db, mx, disk, saved, ret, panicked,
                   hist, snap, original, restarts, dist, nonrb>>

\* if b.n <= b.maxSize
AddSampleBranch(w) ==
    /\ ~panicked
    /\ wk[w].pc = "inced"
    /\ wk' = [wk EXCEPT ![w].pc = IF InFill(n, maxSize) THEN "fill" ELSE "draw",
                        ![w].n = n]
    /\ UNCHANGED <<path, opts, maxSize, n, db, mx, disk, saved, ret, panicked,
                   hist, snap, original, restarts, dist, nonrb>>

\* The write of putSample by goroutine w to slot idx: db.Put fails on a
\* handle that is nil or closed, and putSample panics; the deferred Unlock
\* runs and the process dies.
PutOrPanic(w, idx) ==
    IF db = "open"
    THEN /\ disk' = [disk EXCEPT ![path].kv = putSample(@, idx, wk[w].s)]
         /\ wk' = [wk EXCEPT ![w].pc = "unlock", ![w].slot = idx]
         /\ UNCHANGED <<mx, panicked>>
    ELSE /\ panicked' = TRUE
         /\ mx' = FALSE
         /\ wk' = [wk EXCEPT ![w] = Idle]
         /\ UNCHANGED disk

\* b.putSample(b.n-1, s)
AddSampleFill(w) ==
    /\ ~panicked
    /\ wk[w].pc = "fill"
    /\ PutOrPanic(w, FillSlot(n))
    /\ UNCHANGED <<path, opts, maxSize, n, db, saved, ret, hist, snap, original, restarts, dist, nonrb>>

\* m := rand.Intn(b.n)
AddSampleDraw(w) ==
    /\ ~panicked
    /\ wk[w].pc = "draw"
    /\ \E m \in Intn(n) : wk' = [wk EXCEPT ![w].pc = "drawn", ![w].m = m]
    /\ UNCHANGED <<path, opts, maxSize, n, db, mx, disk, saved, ret, panicked,
                   hist, snap, original, restarts, dist, nonrb>>

\* if m < b.maxSize { b.putSample(m, s) }
AddSampleReplace(w) ==
    /\ ~panicked
    /\ wk[w].pc = "drawn"
    /\ IF Keeps(wk[w].m, maxSize)
       THEN PutOrPanic(w, wk[w].m)
       ELSE /\ wk' = [wk EXCEPT ![w].pc = "unlock"]
            /\ UNCHANGED <<disk, mx, panicked>>
    /\ UNCHANGED <<path, opts, maxSize, n, db, saved, ret, hist, snap, original, restarts, dist, nonrb>>

\* the deferred b.mx.Unlock(), and the return
AddSampleUnlock(w) ==
    /\ ~panicked
    /\ wk[w].pc = "unlock"
    /\ mx' = FALSE
    /\ hist' = Append(hist, [s |-> wk[w].s, n |-> wk[w].n, slot |-> wk[w].slot])
    /\ wk' = [wk EXCEPT ![w] = Idle]
    /\ dist' = Spread(dist, wk[w].n, maxSize, wk[w].s)
    /\ UNCHANGED <<path, opts, maxSize, n, db, disk, saved, ret, panicked,
                   snap, original, restarts, nonrb>>

\* The statements of AddSample after the lock was taken.
AddSampleBody(w) ==
    \/ AddSampleInc(w)
    \/ AddSampleBranch(w)
    \/ AddSampleFill(w)
    \/ AddSampleDraw(w)
    \/ AddSampleReplace(w)
    \/ AddSampleUnlock(w)

\* AddSample(s) by goroutine w, for s among the samples S, while fewer than
\* limit samples were counted.
AddSample(w, S, limit) ==
    \/ n < limit /\ \E s \in S : AddSampleLock(w, s)
    \/ AddSampleBody(w)

(***************************************************************************)
(* GetSamples, Close and the metadata's GobEncode / GobDecode.             *)
(***************************************************************************)
\* GetSamples takes no lock.  On a nil handle the call is a nil dereference
\* and on a closed one iter.Error() is set: both panic.
GetSamplesCall ==
    /\ ~panicked
    /\ Built
    /\ IF db = "open"
       THEN /\ ret' = [op |-> "GetSamples", err |-> FALSE,
                       val |-> GetSamples(disk[path].kv)]
            /\ UNCHANGED <<panicked, wk, mx>>
       ELSE /\ panicked' = TRUE
            /\ wk' = [w \in Workers |-> Idle]
            /\ mx' = FALSE
            /\ UNCHANGED ret
    /\ UNCHANGED <<path, opts, maxSize, n, db, disk, saved, hist, snap, original, restarts, dist, nonrb>>

\* Close: b.db.Close().
Close ==
    /\ ~panicked
    /\ Built
    /\ db # "nil"
    /\ db' = "closed"
    /\ ret' = [op |-> "Close", err |-> (db = "closed"), val |-> <<>>]
    /\ UNCHANGED <<path, opts, maxSize, n, mx, wk, disk, saved, panicked,
                   hist, snap, original, restarts, dist, nonrb>>

\* The gob stream GobEncode writes: path, opts, maxSize, n, in this order.
EncodeMeta(p, o, c, cnt) == <<p, o, c, cnt>>

\* GobEncode reads the fields without the mutex.  gob refuses a nil pointer
\* (enc.Encode(b.opts) panics when the buffer was built with nil options).
GobEncode ==
    /\ ~panicked
    /\ Built
    /\ IF opts.nil
       THEN /\ panicked' = TRUE
            /\ wk' = [w \in Workers |-> Idle]
            /\ mx' = FALSE
            /\ UNCHANGED <<saved, ret, snap>>
       ELSE /\ saved' = <<EncodeMeta(path, opts, maxSize, n)>>
            /\ ret' = [op |-> "GobEncode", err |-> FALSE, val |-> <<>>]
            /\ snap' = [path |-> path, maxSize |-> maxSize, n |-> n,
                        calls |-> Len(hist), store |-> disk[path],
                        quiet |-> Quiet, fresh |-> TRUE, original |-> original]
            /\ UNCHANGED <<panicked, wk, mx>>
    /\ UNCHANGED <<path, opts, maxSize, n, db, disk, hist, original, restarts, dist, nonrb>>

\* Mutant of ReopenOpts: the store is reopened with the options as saved.
ReopenOptsAsSaved(o) == o

\* b.opts.ErrorIfMissing = true
ReopenOpts(o) == [o EXCEPT !.ErrorIfMissing = TRUE]

\* Mutant of DecodeMeta: the count and the capacity are read in the other
\* order.
DecodeMetaSwapped(buf) ==
    [path |-> buf[1], opts |-> buf[2], maxSize |-> buf[4], n |-> buf[3]]

\* The fields GobDecode reads back from the stream, in the order it reads.
DecodeMeta(buf) == [path |-> buf[1], opts |-> buf[2], maxSize |-> buf[3], n |-> buf[4]]

\* GobDecode(saved), called by gob on the zero-value buffer of a new process:
\* the four fields are assigned before the store is opened, and stay
\* assigned when the open fails.
GobDecode ==
    /\ ~panicked
    /\ ~Built
    /\ saved # <<>>
    /\ LET d == DecodeMeta(saved[1])
           o == ReopenOpts(d.opts)
           r == OpenFile(d.path, o)
       IN  /\ path' = d.path
           /\ opts' = o
           /\ maxSize' = d.maxSize
           /\ n' = d.n
           /\ IF r.err
              THEN UNCHANGED <<db, disk>>
              ELSE /\ db' = "open"
                   /\ disk' = [disk EXCEPT ![d.path] = r.store]
           /\ ret' = [op |-> "GobDecode", err |-> r.err, val |-> <<>>]
    /\ original' = FALSE
    /\ hist' = <<>>
    /\ UNCHANGED <<mx, wk, saved, panicked, snap, restarts, dist, nonrb>>

\* The process ends (exit or crash): the in-memory buffer is gone, a later
\* process holds a zero-value ReservoirBuffer for gob to decode into; the
\* store and the saved metadata stay on disk.
Restart ==
    /\ Built
    /\ restarts < MaxRestarts
    /\ restarts' = restarts + 1
    /\ path' = ""
    /\ opts' = NilOpts
    /\ maxSize' = 0
    /\ n' = 0
    /\ db' = "nil"
    /\ mx' = FALSE
    /\ wk' = [w \in Workers |-> Idle]
    /\ ret' = NoRet
    /\ panicked' = FALSE
    /\ hist' = <<>>
    /\ original' = FALSE
    /\ UNCHANGED <<disk, saved, snap, dist, nonrb>>

\* The store directory disappears while no handle is open on it (it was
\* deleted, or the metadata was carried to a machine without the store).
StoreLost ==
    /\ \E p \in Paths :
          /\ disk[p] # Missing
          /\ ~Locked(p)
          /\ disk' = [disk EXCEPT ![p] = Missing]
    /\ UNCHANGED <<path, opts, maxSize, n, db, mx, wk, saved, ret, panicked,
                   hist, snap, original, restarts, dist, nonrb>>

\* Concurrent producers and a reader on one buffer.
RBNext ==
    \/ \E w \in Workers : AddSample(w, Samples, MaxAdds)
    \/ GetSamplesCall

\* A buffer built at the first path.
ResumeInit == RBInit /\ path = "p1"

\* One producer, and the buffer's life across processes: close, save the
\* metadata, end the process, reload.
ResumeNext ==
    \/ AddSample("w1", Samples, MaxAdds)
    \/ Close
    \/ GobEncode
    \/ GobDecode
    \/ Restart
    \/ StoreLost

\* A buffer of capacity BigCap on which one producer passes the samples
\* 1, 2, 3, ... and which is read once it is full.
OrderInit ==
    /\ path = "p1"
    /\ opts = NilOpts
    /\ maxSize = BigCap
    /\ n = 0
    /\ db = "open"
    /\ mx = FALSE
    /\ wk = [w \in Workers |-> Idle]
    /\ disk = [q \in Paths |-> IF q = "p1" THEN EmptyStore ELSE Missing]
    /\ saved = <<>>
    /\ ret = NoRet
    /\ panicked = FALSE
    /\ hist = <<>>
    /\ snap = NoSnap
    /\ original = TRUE
    /\ restarts = 0
    /\ dist = NoDist
    /\ NoTable

OrderNext ==
    \/ n < maxSize + 1 /\ AddSampleLock("w1", n + 1)
    \/ AddSampleBody("w1")
    \/ n >= maxSize /\ GetSamplesCall

\* One producer passing the distinct samples 1, 2, 3, ... to a buffer whose
\* outcomes are counted.
UniformInit ==
    \E c \in 1..UCap :
        /\ path = "p1"
        /\ opts = NilOpts
        /\ maxSize = c
        /\ n = 0
        /\ db = "open"
        /\ mx = FALSE
        /\ wk = [w \in Workers |-> Idle]
        /\ disk = [q \in Paths |-> IF q = "p1" THEN EmptyStore ELSE Missing]
        /\ saved = <<>>
        /\ ret = NoRet
        /\ panicked = FALSE
        /\ hist = <<>>
        /\ snap = NoSnap
        /\ original = TRUE
        /\ restarts = 0
        /\ dist = [st \in {EmptyStore.kv} |-> 1]
        /\ NoTable

UniformNext ==
    \/ n < UAdds /\ AddSampleLock("w1", n + 1)
    \/ AddSampleBody("w1")

(***************************************************************************)
(* float32 values, kept exact: a value is a fraction <<num, den>> in       *)
(* lowest terms with den > 0.                                              *)
(***************************************************************************)
RECURSIVE GCD(_, _)
GCD(a, b) == IF b = 0 THEN a ELSE GCD(b, a % b)

Abs(x) == IF x < 0 THEN -x ELSE x

\* The fraction nu/de, de > 0.
Rat(nu, de) ==
    LET g == GCD(Abs(nu), de)
    IN  IF nu < 0 THEN <<-(Abs(nu) \div g), de \div g>>
        ELSE <<nu \div g, de \div g>>

RInt(i) == <<i, 1>>
RAdd(a, b) == Rat(a[1] * b[2] + b[1] * a[2], a[2] * b[2])
RMul(a, b) == Rat(a[1] * b[1], a[2] * b[2])
RMinus(a) == <<-a[1], a[2]>>
RPos(a) == a[1] > 0
RNeg(a) == a[1] < 0
\* a / b, b # 0.
RDiv(a, b) ==
    IF b[1] > 0 THEN Rat(a[1] * b[2], a[2] * b[1])
    ELSE Rat(-(a[1] * b[2]), a[2] * (-b[1]))

RECURSIVE RSumTo(_, _)
RSumTo(v, j) == IF j = 0 THEN RInt(0) ELSE RAdd(RSumTo(v, j - 1), v[j])
\* The sum of the entries of a vector.
RSum(v) == RSumTo(v, Len(v))

(***************************************************************************)
(* PolicyTable (package cfr).                                              *)
(***************************************************************************)
\* policy.New(k): a Policy for k actions: no regret, no strategy weight, the
\* uniform strategy, and NextStrategy has not run on it.
PolicyNew(k) ==
    [nActions |-> k,
     regretSum |-> [a \in 1..k |-> RInt(0)],
     strategySum |-> [a \in 1..k |-> RInt(0)],
     currentStrategy |-> [a \in 1..k |-> Rat(1, k)],
     updates |-> <<>>]

\* Policy.NumActions().
NumActions(p) == p.nActions

\* Policy.GetStrategy(): the current strategy, as NextStrategy left it.
GetStrategy(p) == p.currentStrategy

\* Policy.AddRegret(w, r): w * r[a] is added to the regret of every action a.
AddRegret(p, w, r) ==
    [p EXCEPT !.regretSum =
        [a \in 1..p.nActions |-> RAdd(p.regretSum[a], RMul(w, r[a]))]]

\* Policy.AddStrategyWeight(w): w times the current strategy is added to the
\* strategy sum.
AddStrategyWeight(p, w) ==
    [p EXCEPT !.strategySum =
        [a \in 1..p.nActions |->
            RAdd(p.strategySum[a], RMul(w, p.currentStrategy[a]))]]

\* pt.params.GetDiscountFactors(it): the three factors of iteration it.
GetDiscountFactors(dp, it) ==
    [iter |-> it,
     pos |-> RInt(1),
     neg |-> IF dp = "plus" THEN RInt(0) ELSE RInt(1),
     sum |-> RInt(1)]

\* Regret matching: the positive regrets normalised, uniform when there is
\* none.
RegretMatching(R) ==
    LET pos == [a \in 1..Len(R) |-> IF RPos(R[a]) THEN R[a] ELSE RInt(0)]
        tot == RSum(pos)
    IN  IF RPos(tot) THEN [a \in 1..Len(R) |-> RDiv(pos[a], tot)]
        ELSE [a \in 1..Len(R) |-> Rat(1, Len(R))]

\* Policy.NextStrategy(factors): the regrets and the strategy sum are
\* discounted and the current strategy is recomputed.
NextStrategy(p, d) ==
    LET R == [a \in 1..p.nActions |->
                 IF RNeg(p.regretSum[a]) THEN RMul(d.neg, p.regretSum[a])
                                         ELSE RMul(d.pos, p.regretSum[a])]
    IN  [p EXCEPT !.regretSum = R,
                  !.strategySum = [a \in 1..p.nActions |-> RMul(d.sum, @[a])],
                  !.currentStrategy = RegretMatching(R),
                  !.updates = Append(@, d)]

\* The table as one value, and the step that makes it the table.
Table ==
    [params |-> params, iter |-> iter, policiesByKey |-> policiesByKey,
     mayNeedUpdate |-> mayNeedUpdate, heap |-> heap, ptRet |-> ptRet,
     born |-> born, fetched |-> fetched]

SetTable(t) ==
    /\ params' = t.params
    /\ iter' = t.iter
    /\ policiesByKey' = t.policiesByKey
    /\ mayNeedUpdate' = t.mayNeedUpdate
    /\ heap' = t.heap
    /\ ptRet' = t.ptRet
    /\ born' = t.born
    /\ fetched' = t.fetched

\* Mutant of LookupOrCreate: a Policy of another size is replaced by a new
\* one of the size asked for.
LookupOrResize(byKey, hp, key, nc) ==
    IF key \in DOMAIN byKey /\ NumActions(hp[byKey[key]]) = nc
    THEN [np |-> byKey[key], heap |-> hp, byKey |-> byKey]
    ELSE [np |-> Len(hp) + 1,
          heap |-> Append(hp, PolicyNew(nc)),
          byKey |-> [k \in DOMAIN byKey \cup {key} |->
                        IF k = key THEN Len(hp) + 1 ELSE byKey[k]]]

\* lines 61-65: the Policy of the key, created and stored when there is none.
LookupOrCreate(byKey, hp, key, nc) ==
    IF key \in DOMAIN byKey
    THEN [np |-> byKey[key], heap |-> hp, byKey |-> byKey]
    ELSE [np |-> Len(hp) + 1,
          heap |-> Append(hp, PolicyNew(nc)),
          byKey |-> [k \in DOMAIN byKey \cup {key} |->
                        IF k = key THEN Len(hp) + 1 ELSE byKey[k]]]

\* Mutant of MarkTouched: the Policy is marked before the sizes are compared.
MarkTouchedFirst(set, np, bad) == set \cup {np}

\* lines 67-72: the touched set after the call; the panic comes first.
MarkTouched(set, np, bad) == IF bad THEN set ELSE set \cup {np}

\* One more fetch of the Policy np, among cnt Policies.
Fetch(f, cnt, np) ==
    [f EXCEPT !.cur = [q \in 1..cnt |->
        LET old == IF q \in DOMAIN f.cur THEN f.cur[q] ELSE 0
        IN  IF q = np THEN (IF old = 0 THEN 1 ELSE 2) ELSE old]]

\* pt.GetPolicy(node), for a node whose infoset key is key and which has nc
\* children: the table after the call.  A panic leaves the table as lines
\* 61-65 made it.
PolicyTable_GetPolicy(t, key, nc) ==
    LET r == LookupOrCreate(t.policiesByKey, t.heap, key, nc)
        bad == NumActions(r.heap[r.np]) # nc
    IN  [t EXCEPT
           !.heap = r.heap,
           !.policiesByKey = r.byKey,
           !.mayNeedUpdate = MarkTouched(@, r.np, bad),
           !.ptRet = [op |-> "GetPolicy", key |-> key, nc |-> nc, panic |-> bad,
                      val |-> IF bad THEN 0 ELSE r.np],
           !.born = IF key \in DOMAIN @ THEN @
                    ELSE [k \in DOMAIN @ \cup {key} |->
                             IF k = key THEN [ptr |-> r.np, n |-> nc] ELSE @[k]],
           !.fetched = IF bad THEN Fetch(@, Len(r.heap), 0)
                       ELSE Fetch(@, Len(r.heap), r.np)]

\* Mutant of Sweep: NextStrategy runs on every Policy of the table.
SweepAll(hp, touched, d) ==
    [np \in 1..Len(hp) |-> NextStrategy(hp[np], d)]

\* lines 40-42: NextStrategy on each Policy of the touched set.
Sweep(hp, touched, d) ==
    [np \in 1..Len(hp) |->
        IF np \in touched THEN NextStrategy(hp[np], d) ELSE hp[np]]

\* pt.Update(): the table after the call.
PolicyTable_Update(t) ==
    [t EXCEPT
       !.heap = Sweep(@, t.mayNeedUpdate, GetDiscountFactors(t.params, t.iter)),
       !.mayNeedUpdate = {},
       !.iter = @ + 1,
       !.ptRet = [NoCall EXCEPT !.op = "Update"],
       !.fetched = [cur |-> [q \in DOMAIN @.cur |-> 0], swept |-> @.cur]]

\* A call of GetPolicy.
GetPolicy(key, nc) ==
    /\ SetTable(PolicyTable_GetPolicy(Table, key, nc))
    /\ UNCHANGED nonpt

\* A call of Update.
Update ==
    /\ iter < MaxIter
    /\ SetTable(PolicyTable_Update(Table))
    /\ UNCHANGED nonpt

\* No reservoir buffer exists.
NoBuffer ==
    /\ path = ""
    /\ opts = NilOpts
    /\ maxSize = 0
    /\ n = 0
    /\ db = "nil"
    /\ mx = FALSE
    /\ wk = [w \in Workers |-> Idle]
    /\ disk = [q \in Paths |-> Missing]
    /\ saved = <<>>
    /\ ret = NoRet
    /\ panicked = FALSE
    /\ hist = <<>>
    /\ snap = NoSnap
    /\ original = FALSE
    /\ restarts = 0
    /\ dist = NoDist

PTInit == (\E dp \in DiscountParams : NewPolicyTable(dp)) /\ NoBuffer /\ NoEngine

PTNext ==
    \/ \E key \in Keys, nc \in 1..MaxChildren : GetPolicy(key, nc)
    \/ Update

(***************************************************************************)
(* Game trees (GameTreeNode, src/interface.go): a tree is the sequence of  *)
(* its nodes, the root first; a node names its children by their place in  *)
(* the sequence.  Utilities are those of player 0; the games are zero-sum. *)
(***************************************************************************)
TerminalNode(u) ==
    [type |-> "Terminal", player |-> 0, key |-> "", children |-> <<>>,
     probs |-> <<>>, u |-> u]

PlayerNode(pl, key, ch) ==
    [type |-> "Player", player |-> pl, key |-> key, children |-> ch,
     probs |-> <<>>, u |-> 0]

ChanceNode(ch, pr) ==
    [type |-> "Chance", player |-> 0, key |-> "", children |-> ch,
     probs |-> pr, u |-> 0]

\* One decision of player 1.
GameLeaf ==
    <<PlayerNode(1, "k1", <<2, 3>>), TerminalNode(1), TerminalNode(-3)>>

\* A chance root over a decision of each player.
GameChanceRoot ==
    <<ChanceNode(<<2, 3>>, <<Rat(1, 2), Rat(1, 2)>>),
      PlayerNode(0, "k1", <<4, 5>>), PlayerNode(1, "k2", <<6, 7>>),
      TerminalNode(2), TerminalNode(0), TerminalNode(-1), TerminalNode(4)>>

\* Player 1 moves, then player 0 who has not seen that move (both of its
\* nodes have the infoset key k2), then player 1 again on one branch.
GameShared ==
    <<PlayerNode(1, "k1", <<2, 3>>),
      PlayerNode(0, "k2", <<4, 5>>), PlayerNode(0, "k2", <<6, 7>>),
      PlayerNode(1, "k3", <<8, 9>>), TerminalNode(1),
      TerminalNode(-2), TerminalNode(3),
      TerminalNode(-1), TerminalNode(2)>>

\* A decision among three actions, one of them followed by chance.
GameWide ==
    <<PlayerNode(1, "k1", <<2, 3, 4>>),
      TerminalNode(-1), TerminalNode(2),
      ChanceNode(<<5, 6>>, <<Rat(1, 4), Rat(3, 4)>>),
      TerminalNode(4), TerminalNode(-4)>>

Games == {GameLeaf, GameChanceRoot, GameShared, GameWide}

\* node.Type(), node.NumChildren(), node.GetChild(i) (i counts from 0),
\* node.InfoSet(player).Key() and node.Utility(player) of node x of tree g.
Type(g, x) == g[x].type
NumChildren(g, x) == Len(g[x].children)
GetChild(g, x, i) == g[x].children[i + 1]
InfoSetKey(g, x, pl) == g[x].key
Utility(g, x, pl) == IF pl = 0 THEN g[x].u ELSE -g[x].u

\* What node.Player() can return.  On a Chance node the call is outside the
\* contract of GameTreeNode and the game may answer with either player.
PlayerResults(g, x) == IF Type(g, x) = "Chance" THEN {0, 1} ELSE {g[x].player}

\* What node.SampleChild() can return: the index of a child of positive
\* probability; it returns the child i with probability probs[i + 1].
SampleChildResults(g, x) ==
    {i \in 0..(NumChildren(g, x) - 1) : RPos(g[x].probs[i + 1])}

\* A call made on a node or on its policy: the operation, the node, an index
\* or player, and a value.
Event(op, x, i, v) == [op |-> op, node |-> x, i |-> i, v |-> v]

(***************************************************************************)
(* The scratch buffer pool (slicePool): the contents of the buffers that   *)
(* were freed.  A buffer that is reused comes with the content it was      *)
(* freed with; which freed buffer alloc reuses, if any, is the pool's      *)
(* choice, so the pool is kept as the set of contents alloc may hand out.  *)
(***************************************************************************)
Zeros(cnt) == [a \in 1..cnt |-> RInt(0)]

\* What alloc(cnt) can do: make a new, zeroed buffer, or reuse a freed one
\* that is long enough, with the content it has.
AllocChoices(pool, cnt) ==
    {[fresh |-> TRUE, from |-> <<>>]}
        \cup {[fresh |-> FALSE, from |-> b] : b \in {q \in pool : Len(q) >= cnt}}

\* alloc(cnt) under the choice ch: the buffer handed out.
alloc(pool, cnt, ch) ==
    IF ch.fresh THEN [buf |-> Zeros(cnt), pool |-> pool]
    ELSE [buf |-> SubSeq(ch.from, 1, cnt), pool |-> pool]

\* free(buf).
free(pool, buf) == pool \cup {buf}

\* f32.AddConst(x, v): x is added to every element of v.
AddConst(x, v) == [a \in 1..Len(v) |-> RAdd(v[a], x)]

\* getSign(lastPlayer, player): the value changes sign when the perspective
\* changes from one player to the other.
getSign(lastPlayer, pl) == IF lastPlayer = pl THEN 1 ELSE -1

(***************************************************************************)
(* The state of a call of Run as one value, so that a step of the          *)
(* traversal is a function of it.                                          *)
(***************************************************************************)
Cfg ==
    [t |-> Table, cfr |-> cfr, game |-> game, stack |-> stack,
     sampledActions |-> sampledActions, traversingPlayer |-> traversingPlayer,
     runRet |-> runRet, calls |-> calls, runs |-> runs, lastRun |-> lastRun]

SetCfg(c) ==
    /\ SetTable(c.t)
    /\ cfr' = c.cfr
    /\ game' = c.game
    /\ stack' = c.stack
    /\ sampledActions' = c.sampledActions
    /\ traversingPlayer' = c.traversingPlayer
    /\ runRet' = c.runRet
    /\ calls' = c.calls
    /\ runs' = c.runs
    /\ lastRun' = c.lastRun

\* The activation on top of the stack, and the stack with another top.
Top(c) == c.stack[Len(c.stack)]
SetTop(c, f) == [c EXCEPT !.stack[Len(c.stack)] = f]
Push(c, f) == [c EXCEPT !.stack = Append(@, f)]
Log(c, e) == [c EXCEPT !.calls = Append(@, e)]

\* A panic unwinds every activation; no deferred call closes a node.
Unwind(c) ==
    [c EXCEPT !.stack = <<>>, !.runRet = [NoRunRet EXCEPT !.panic = TRUE]]

(***************************************************************************)
(* RobustSamplingCFR (src/unnamed/part_000:9-140).                         *)
(***************************************************************************)
\* NewRobustSampling(strategyProfile, k).
NewRobustSampling(kk) ==
    [kind |-> "robust", k |-> kk, slicePool |-> {}]

\* runHelper(node, lastPlayer, sampleProb, ...): a new activation, about to
\* switch on the node's type.
RSFrame(x, lp, sp) ==
    [node |-> x, lastPlayer |-> lp, sampleProb |-> sp, pc |-> "enter",
     sgn |-> 1, player |-> 0, policy |-> 0, strategy |-> <<>>,
     selected |-> <<>>, pos |-> 0, q |-> RInt(1), regrets |-> <<>>,
     cfValue |-> RInt(0), ev |-> RInt(0)]

\* Run(node), lines 23-28; pl is what node.Player() returns.
RobustSamplingCFR_Run(c, pl) ==
    [c EXCEPT
       !.traversingPlayer = c.t.iter % 2,
       !.sampledActions = <<>>,
       !.lastRun = c.sampledActions,
       !.runs = @ + 1,
       !.runRet = NoRunRet,
       !.calls = <<Event("Run", 1, 0, 0), Event("Player", 1, pl, 0)>>,
       !.stack = <<RSFrame(1, pl, RInt(1))>>]

\* runHelper, case TerminalNode (line 40).
rsTerminal(c) ==
    LET f == Top(c)
        ev == RDiv(RInt(Utility(c.game, f.node, f.lastPlayer)), f.sampleProb)
    IN  Log(SetTop(c, [f EXCEPT !.ev = ev, !.pc = "close"]),
            Event("Utility", f.node, f.lastPlayer, 0))

\* handleChanceNode, lines 52-56; SampleChild returns child i.
rsHandleChanceNode(c, i) ==
    LET f == Top(c)
        child == GetChild(c.game, f.node, i)
    IN  Push(Log(SetTop(c, [f EXCEPT !.pc = "chance"]),
                 Event("SampleChild", f.node, i, child)),
             RSFrame(child, f.lastPlayer, f.sampleProb))

\* arange(n), lines 134-140.
arange(cnt) == [j \in 1..cnt |-> j - 1]

\* The orders rand.Shuffle can leave arange(cnt) in, all equally likely.
Shuffles(cnt) ==
    {s \in [1..cnt -> 0..(cnt - 1)] : \A i, j \in 1..cnt : i # j => s[i] # s[j]}

\* What lines 73-80 can select.
Shufflings(kk, cnt) == IF kk < cnt THEN Shuffles(cnt) ELSE {arange(cnt)}

\* Mutant of Selected: the shuffled actions are not cut down to k.
SelectedAll(kk, shuffled) == shuffled

\* lines 73-80: the actions to recurse into, given the order the shuffle
\* left (arange's own when there is no shuffle).
Selected(kk, shuffled) ==
    IF kk < Len(shuffled) THEN SubSeq(shuffled, 1, kk) ELSE shuffled

\* Mutant of TraversingQ: the probability with which an action is selected.
TraversingQSelected(kk, cnt) == Rat(IF kk < cnt THEN kk ELSE cnt, cnt)

\* line 82: q.
TraversingQ(kk, cnt) == Rat(1, cnt)

\* lines 44-45 and 58-85, for a node of the traversing player: the policy,
\* the selection and the buffer, up to the loop over the selected actions.
rsHandleTraversingPlayerNode(c, shuffled, ch) ==
    LET f == Top(c)
        x == f.node
        player == c.game[x].player
        nChildren == NumChildren(c.game, x)
        t1 == PolicyTable_GetPolicy(c.t, InfoSetKey(c.game, x, player), nChildren)
        a == alloc(c.cfr.slicePool, nChildren, ch)
        c1 == [c EXCEPT !.t = t1, !.cfr.slicePool = a.pool]
    IN  IF t1.ptRet.panic THEN Unwind(Log([c EXCEPT !.t = t1], Event("Player", x, player, 0)))
        ELSE Log(SetTop(c1, [f EXCEPT
                     !.pc = "loop",
                     !.sgn = getSign(f.lastPlayer, player),
                     !.player = player,
                     !.policy = t1.ptRet.val,
                     !.strategy = GetStrategy(t1.heap[t1.ptRet.val]),
                     !.selected = Selected(c.cfr.k, shuffled),
                     !.pos = 1,
                     !.q = TraversingQ(c.cfr.k, nChildren),
                     !.regrets = a.buf,
                     !.cfValue = RInt(0)]),
                 Event("Player", x, player, 0))

\* lines 86-89: the next selected action; runHelper is called on its child.
rsLoopChild(c) ==
    LET f == Top(c)
        i == f.selected[f.pos]
        child == GetChild(c.game, f.node, i)
    IN  Push(Log(SetTop(c, [f EXCEPT !.pc = "loopWait"]),
                 Event("GetChild", f.node, i, child)),
             RSFrame(child, f.player, RMul(f.q, f.sampleProb)))

\* lines 94-98 and 45: after the loop.
rsLoopEnd(c) ==
    LET f == Top(c)
        regrets == AddConst(RMinus(f.cfValue), f.regrets)
        w == RDiv(RInt(1), f.q)
        c1 == [c EXCEPT !.t.heap[f.policy] = AddRegret(@, w, regrets),
                        !.cfr.slicePool = free(@, regrets)]
    IN  Log(SetTop(c1, [f EXCEPT !.regrets = regrets,
                                 !.ev = RMul(RInt(f.sgn), f.cfValue),
                                 !.pc = "close"]),
            Event("AddRegret", f.node, f.policy,
                  [w |-> w, regrets |-> regrets, cfValue |-> f.cfValue,
                   selected |-> f.selected]))

\* sampleOne(strategy): an action of positive probability; it returns the
\* action i with probability strategy[i + 1].
sampleOne(strategy) == {i \in 0..(Len(strategy) - 1) : RPos(strategy[i + 1])}

\* Mutant of CacheLookup: the map is never found to hold the key.
CacheLookupMiss(cache, key) == [ok |-> FALSE, i |-> 0]

\* line 116: i, ok := sampledActions[key].
CacheLookup(cache, key) ==
    IF key \in DOMAIN cache THEN [ok |-> TRUE, i |-> cache[key]]
    ELSE [ok |-> FALSE, i |-> 0]

\* The actions lines 116-122 can arrive at, for a node of the other player.
SampledChoices(c) ==
    LET f == Top(c)
        x == f.node
        player == c.game[x].player
        key == InfoSetKey(c.game, x, player)
        t1 == PolicyTable_GetPolicy(c.t, key, NumChildren(c.game, x))
        hit == CacheLookup(c.sampledActions, key)
    IN  IF t1.ptRet.panic THEN {0}
        ELSE IF hit.ok THEN {hit.i}
        ELSE sampleOne(GetStrategy(t1.heap[t1.ptRet.val]))

\* lines 44-45, 58-63 and 111-131, for a node of the other player; i is the
\* action lines 116-122 arrive at.
rsHandleSampledPlayerNode(c, i) ==
    LET f == Top(c)
        x == f.node
        player == c.game[x].player
        key == InfoSetKey(c.game, x, player)
        t1 == PolicyTable_GetPolicy(c.t, key, NumChildren(c.game, x))
        np == t1.ptRet.val
        w == RDiv(RInt(1), f.sampleProb)
        child == GetChild(c.game, x, i)
        c1 == [c EXCEPT
                 !.t = [t1 EXCEPT !.heap[np] = AddStrategyWeight(@, w)],
                 !.sampledActions =
                     [k \in DOMAIN @ \cup {key} |-> IF k = key THEN i ELSE @[k]]]
        c2 == Log(Log(Log(c1, Event("Player", x, player, 0)),
                      Event("AddStrategyWeight", x, np, w)),
                  Event("GetChild", x, i, child))
    IN  IF t1.ptRet.panic THEN Unwind(Log([c EXCEPT !.t = t1], Event("Player", x, player, 0)))
        ELSE Push(SetTop(c2, [f EXCEPT !.pc = "sampled",
                                       !.sgn = getSign(f.lastPlayer, player),
                                       !.player = player,
                                       !.policy = np]),
                  RSFrame(child, player, f.sampleProb))

\* Mutant of CloseNode: a Terminal node is not closed.
CloseNodeInner(log, g, x, ev) ==
    IF Type(g, x) = "Terminal" THEN log ELSE Append(log, Event("Close", x, 0, ev))

\* line 48: node.Close(), the node's value ev being computed.
CloseNode(log, g, x, ev) == Append(log, Event("Close", x, 0, ev))

\* lines 48-49, and what the caller does with the value returned: lines
\* 90-91 in the loop, line 55 for a Chance node, lines 131 and 45 for a node
\* of the other player; Run returns it.
rsReturn(c) ==
    LET f == Top(c)
        util == f.ev
        c1 == [c EXCEPT !.calls = CloseNode(@, c.game, f.node, util),
                        !.stack = SubSeq(@, 1, Len(@) - 1)]
    IN  IF Len(c.stack) = 1
        THEN [c1 EXCEPT !.runRet = [done |-> TRUE, panic |-> FALSE, val |-> util]]
        ELSE LET p == Top(c1)
             IN  IF p.pc = "loopWait"
                 THEN LET i == p.selected[p.pos]
                      IN  SetTop(c1, [p EXCEPT
                              !.regrets[i + 1] = util,
                              !.cfValue = RAdd(@, RMul(p.strategy[i + 1], util)),
                              !.pos = @ + 1,
                              !.pc = "loop"])
                 ELSE IF p.pc = "chance"
                 THEN SetTop(c1, [p EXCEPT !.ev = util, !.pc = "close"])
                 ELSE SetTop(c1, [p EXCEPT !.ev = RMul(RInt(p.sgn), util),
                                           !.pc = "close"])

\* Where the traversal stands.
Running == stack # <<>>
At(label) == Running /\ stack[Len(stack)].pc = label
AtType(ty) == At("enter") /\ Type(game, stack[Len(stack)].node) = ty
Traversing == game[stack[Len(stack)].node].player = traversingPlayer

\* The steps of a call of Run on the robust-sampling engine.
Run ==
    /\ cfr.kind = "robust"
    /\ ~Running
    /\ runs < MaxRuns
    /\ \E pl \in PlayerResults(game, 1) : SetCfg(RobustSamplingCFR_Run(Cfg, pl))
    /\ UNCHANGED nontr

Terminal ==
    /\ cfr.kind = "robust"
    /\ AtType("Terminal")
    /\ SetCfg(rsTerminal(Cfg))
    /\ UNCHANGED nontr

HandleChanceNode ==
    /\ cfr.kind = "robust"
    /\ AtType("Chance")
    /\ \E i \in SampleChildResults(game, stack[Len(stack)].node) :
          SetCfg(rsHandleChanceNode(Cfg, i))
    /\ UNCHANGED nontr

HandleTraversingPlayerNode ==
    /\ cfr.kind = "robust"
    /\ AtType("Player")
    /\ Traversing
    /\ LET cnt == NumChildren(game, stack[Len(stack)].node)
       IN  \E s \in Shufflings(cfr.k, cnt), ch \in AllocChoices(cfr.slicePool, cnt) :
              SetCfg(rsHandleTraversingPlayerNode(Cfg, s, ch))
    /\ UNCHANGED nontr

LoopChild ==
    /\ cfr.kind = "robust"
    /\ At("loop")
    /\ stack[Len(stack)].pos <= Len(stack[Len(stack)].selected)
    /\ SetCfg(rsLoopChild(Cfg))
    /\ UNCHANGED nontr

LoopEnd ==
    /\ cfr.kind = "robust"
    /\ At("loop")
    /\ stack[Len(stack)].pos > Len(stack[Len(stack)].selected)
    /\ SetCfg(rsLoopEnd(Cfg))
    /\ UNCHANGED nontr

HandleSampledPlayerNode ==
    /\ cfr.kind = "robust"
    /\ AtType("Player")
    /\ ~Traversing
    /\ \E i \in SampledChoices(Cfg) : SetCfg(rsHandleSampledPlayerNode(Cfg, i))
    /\ UNCHANGED nontr

Return ==
    /\ cfr.kind = "robust"
    /\ At("close")
    /\ SetCfg(rsReturn(Cfg))
    /\ UNCHANGED nontr

\* The training loop calls Update between two calls of Run, once policies
\* were touched.
UpdateProfile == ~Running /\ mayNeedUpdate # {} /\ Update

\* A robust-sampling engine with some k over a new table, and a game.
RSInit ==
    /\ \E dp \in DiscountParams : NewPolicyTable(dp)
    /\ NoBuffer
    /\ \E kk \in 1..MaxK : cfr = NewRobustSampling(kk)
    /\ game \in Games
    /\ stack = <<>>
    /\ sampledActions = <<>>
    /\ traversingPlayer = 0
    /\ runRet = NoRunRet
    /\ calls = <<>>
    /\ runs = 0
    /\ lastRun = <<>>
    /\ NoBytes

RSNext ==
    \/ Run
    \/ Terminal
    \/ HandleChanceNode
    \/ HandleTraversingPlayerNode
    \/ LoopChild
    \/ LoopEnd
    \/ HandleSampledPlayerNode
    \/ Return
    \/ UpdateProfile

(***************************************************************************)
(* ChanceSamplingCFR (src/unnamed/part_000:147-213).                       *)
(***************************************************************************)
\* NewChanceSampling(strategyProfile).
NewChanceSampling == [kind |-> "chance", k |-> 0, slicePool |-> {}]

\* reachProb(player, reachP0, reachP1, reachChance): the player's own reach
\* probability.
reachProb(pl, r0, r1, rc) == IF pl = 0 THEN r0 ELSE r1

\* counterFactualProb(player, reachP0, reachP1, reachChance): the reach
\* probability of everyone but the player.
counterFactualProb(pl, r0, r1, rc) == IF pl = 0 THEN RMul(r1, rc) ELSE RMul(r0, rc)

\* NodeStrategy.GetActionProbability(i), i counting from 0.
GetActionProbability(p, i) == p.currentStrategy[i + 1]

\* NodeStrategy.AddRegret(reachP, counterFactualP, advantages): the
\* advantages weighted by counterFactualP are added to the regrets, the
\* current strategy weighted by reachP to the strategy sum.
NodeStrategyAddRegret(p, reachP, counterFactualP, adv) ==
    AddStrategyWeight(AddRegret(p, counterFactualP, adv), reachP)

\* runHelper(node, lastPlayer, reachP0, reachP1): a new activation.
CSFrame(x, lp, r0, r1) ==
    [node |-> x, lastPlayer |-> lp, reachP0 |-> r0, reachP1 |-> r1,
     pc |-> "enter", sgn |-> 1, player |-> 0, policy |-> 0, pos |-> 0,
     advantages |-> <<>>, expectedUtil |-> RInt(0), ev |-> RInt(0)]

\* Run(node), lines 159-161; pl is what node.Player() returns.
ChanceSamplingCFR_Run(c, pl) ==
    [c EXCEPT
       !.lastRun = c.sampledActions,
       !.runs = @ + 1,
       !.runRet = NoRunRet,
       !.calls = <<Event("Run", 1, 0, 0), Event("Player", 1, pl, 0)>>,
       !.stack = <<CSFrame(1, pl, RInt(1), RInt(1))>>]

\* runHelper, case TerminalNode (line 167).
csTerminal(c) ==
    LET f == Top(c)
    IN  Log(SetTop(c, [f EXCEPT
                !.ev = RInt(Utility(c.game, f.node, f.lastPlayer)),
                !.pc = "close"]),
            Event("Utility", f.node, f.lastPlayer, 0))

\* handleChanceNode, lines 179-183; SampleChild returns child i.
csHandleChanceNode(c, i) ==
    LET f == Top(c)
        child == GetChild(c.game, f.node, i)
    IN  Push(Log(SetTop(c, [f EXCEPT !.pc = "chance"]),
                 Event("SampleChild", f.node, i, child)),
             CSFrame(child, f.lastPlayer, f.reachP0, f.reachP1))

\* lines 171-172 and 185-191: the node's strategy and the buffer, up to the
\* loop over the children.
csHandlePlayerNode(c, ch) ==
    LET f == Top(c)
        x == f.node
        player == c.game[x].player
        nChildren == NumChildren(c.game, x)
        t1 == PolicyTable_GetPolicy(c.t, InfoSetKey(c.game, x, player), nChildren)
        a == alloc(c.cfr.slicePool, nChildren, ch)
        c1 == [c EXCEPT !.t = t1, !.cfr.slicePool = a.pool]
    IN  IF t1.ptRet.panic THEN Unwind(Log([c EXCEPT !.t = t1], Event("Player", x, player, 0)))
        ELSE Log(SetTop(c1, [f EXCEPT
                     !.pc = "loop",
                     !.sgn = getSign(f.lastPlayer, player),
                     !.player = player,
                     !.policy = t1.ptRet.val,
                     !.pos = 0,
                     !.advantages = a.buf,
                     !.expectedUtil = RInt(0)]),
                 Event("Player", x, player, 0))

\* Mutant of ChildReach: both reach probabilities are scaled.
ChildReachBoth(pl, p, r0, r1) == <<RMul(p, r0), RMul(p, r1)>>

\* lines 196-200: the reach probabilities the child is entered with.
ChildReach(pl, p, r0, r1) ==
    IF pl = 0 THEN <<RMul(p, r0), r1>> ELSE <<r0, RMul(p, r1)>>

\* lines 192-200: child i; runHelper is called on it.
csLoopChild(c) ==
    LET f == Top(c)
        i == f.pos
        child == GetChild(c.game, f.node, i)
        p == GetActionProbability(c.t.heap[f.policy], i)
        r == ChildReach(f.player, p, f.reachP0, f.reachP1)
    IN  Push(Log(SetTop(c, [f EXCEPT !.pc = "loopWait"]),
                 Event("GetChild", f.node, i, child)),
             CSFrame(child, f.player, r[1], r[2]))

\* lines 206-212 and 172: after the loop.
csLoopEnd(c) ==
    LET f == Top(c)
        advantages == AddConst(RMinus(f.expectedUtil), f.advantages)
        reachP == reachProb(f.player, f.reachP0, f.reachP1, RInt(1))
        counterFactualP == counterFactualProb(f.player, f.reachP0, f.reachP1, RInt(1))
        c1 == [c EXCEPT
                 !.t.heap[f.policy] =
                     NodeStrategyAddRegret(@, reachP, counterFactualP, advantages),
                 !.cfr.slicePool = free(@, advantages)]
    IN  Log(SetTop(c1, [f EXCEPT !.advantages = advantages,
                                 !.ev = RMul(RInt(f.sgn), f.expectedUtil),
                                 !.pc = "close"]),
            Event("AddRegret", f.node, f.policy,
                  [w |-> counterFactualP, regrets |-> advantages,
                   cfValue |-> f.expectedUtil, selected |-> arange(Len(advantages))]))

\* lines 175-176, and what the caller does with the value returned: lines
\* 202-203 in the loop, line 182 for a Chance node; Run returns it.
csReturn(c) ==
    LET f == Top(c)
        util == f.ev
        c1 == [c EXCEPT !.calls = CloseNode(@, c.game, f.node, util),
                        !.stack = SubSeq(@, 1, Len(@) - 1)]
    IN  IF Len(c.stack) = 1
        THEN [c1 EXCEPT !.runRet = [done |-> TRUE, panic |-> FALSE, val |-> util]]
        ELSE LET p == Top(c1)
             IN  IF p.pc = "loopWait"
                 THEN SetTop(c1, [p EXCEPT
                          !.advantages[p.pos + 1] = util,
                          !.expectedUtil = RAdd(@, RMul(
                              GetActionProbability(c.t.heap[p.policy], p.pos), util)),
                          !.pos = @ + 1,
                          !.pc = "loop"])
                 ELSE SetTop(c1, [p EXCEPT !.ev = util, !.pc = "close"])

\* The steps of a call of Run on the chance-sampling engine.
CSRun ==
    /\ cfr.kind = "chance"
    /\ ~Running
    /\ runs < MaxRuns
    /\ \E pl \in PlayerResults(game, 1) : SetCfg(ChanceSamplingCFR_Run(Cfg, pl))
    /\ UNCHANGED nontr

CSTerminal ==
    /\ cfr.kind = "chance"
    /\ AtType("Terminal")
    /\ SetCfg(csTerminal(Cfg))
    /\ UNCHANGED nontr

CSHandleChanceNode ==
    /\ cfr.kind = "chance"
    /\ AtType("Chance")
    /\ \E i \in SampleChildResults(game, stack[Len(stack)].node) :
          SetCfg(csHandleChanceNode(Cfg, i))
    /\ UNCHANGED nontr

CSHandlePlayerNode ==
    /\ cfr.kind = "chance"
    /\ AtType("Player")
    /\ \E ch \in AllocChoices(cfr.slicePool, NumChildren(game, stack[Len(stack)].node)) :
          SetCfg(csHandlePlayerNode(Cfg, ch))
    /\ UNCHANGED nontr

CSLoopChild ==
    /\ cfr.kind = "chance"
    /\ At("loop")
    /\ stack[Len(stack)].pos < NumChildren(game, stack[Len(stack)].node)
    /\ SetCfg(csLoopChild(Cfg))
    /\ UNCHANGED nontr

CSLoopEnd ==
    /\ cfr.kind = "chance"
    /\ At("loop")
    /\ ~(stack[Len(stack)].pos < NumChildren(game, stack[Len(stack)].node))
    /\ SetCfg(csLoopEnd(Cfg))
    /\ UNCHANGED nontr

CSReturn ==
    /\ cfr.kind = "chance"
    /\ At("close")
    /\ SetCfg(csReturn(Cfg))
    /\ UNCHANGED nontr

\* A chance-sampling engine over a new table, and a game.
CSInit ==
    /\ \E dp \in DiscountParams : NewPolicyTable(dp)
    /\ NoBuffer
    /\ cfr = NewChanceSampling
    /\ game \in Games
    /\ stack = <<>>
    /\ sampledActions = <<>>
    /\ traversingPlayer = 0
    /\ runRet = NoRunRet
    /\ calls = <<>>
    /\ runs = 0
    /\ lastRun = <<>>
    /\ NoBytes

CSNext ==
    \/ CSRun
    \/ CSTerminal
    \/ CSHandleChanceNode
    \/ CSHandlePlayerNode
    \/ CSLoopChild
    \/ CSLoopEnd
    \/ CSReturn
    \/ UpdateProfile

\* Either engine.
CFRInit == RSInit \/ CSInit

CFRNext ==
    \/ Run
    \/ Terminal
    \/ HandleChanceNode
    \/ HandleTraversingPlayerNode
    \/ LoopChild
    \/ LoopEnd
    \/ HandleSampledPlayerNode
    \/ Return
    \/ CSRun
    \/ CSTerminal
    \/ CSHandleChanceNode
    \/ CSHandlePlayerNode
    \/ CSLoopChild
    \/ CSLoopEnd
    \/ CSReturn
    \/ UpdateProfile

(***************************************************************************)
(* MarshalBinary and UnmarshalBinary (src/unnamed/part_001:76-139): the    *)
(* bytes are the sequence of the values gob encoded, each with its type.   *)
(***************************************************************************)
gobValue(ty, v) == [gob |-> ty, v |-> v]

\* The gob encoding of a Policy: its action count, regrets, strategy sum and
\* current strategy; and the Policy decoded from it.
gobEncodePolicy(p) ==
    [nActions |-> p.nActions, regretSum |-> p.regretSum,
     strategySum |-> p.strategySum, currentStrategy |-> p.currentStrategy]

gobDecodePolicy(e) ==
    [nActions |-> e.nActions, regretSum |-> e.regretSum,
     strategySum |-> e.strategySum, currentStrategy |-> e.currentStrategy,
     updates |-> <<>>]

\* The orders in which `range pt.policiesByKey` can go through the keys.
KeyOrders(byKey) ==
    {o \in [1..Cardinality(DOMAIN byKey) -> DOMAIN byKey] :
        \A i, j \in DOMAIN o : i # j => o[i] # o[j]}

\* pt.MarshalBinary(), the map being ranged over in the given order: params,
\* iter, the number of policies, then each key and its Policy.
PolicyTable_MarshalBinary(t, order) ==
    <<gobValue("DiscountParams", t.params), gobValue("int", t.iter),
      gobValue("int", Len(order))>>
        \o [j \in 1..(2 * Len(order)) |->
              IF j % 2 = 1 THEN gobValue("string", order[(j + 1) \div 2])
              ELSE gobValue("Policy",
                       gobEncodePolicy(t.heap[t.policiesByKey[order[j \div 2]]]))]

\* Mutant of DecodedPolicy: `var s policy.Policy` is declared once, before
\* the loop, so that every key gets the Policy decoded last.
DecodedPolicyShared(b, j) == gobDecodePolicy(b[3 + 2 * b[3].v].v)

\* lines 95-105: the key and the Policy of the j-th pair of the bytes b.
DecodedKey(b, j) == b[2 + 2 * j].v
DecodedPolicy(b, j) == gobDecodePolicy(b[3 + 2 * j].v)

\* pt.UnmarshalBinary(b): the table after the call.  The decoded Policies
\* are new objects; those of the table as it was are dropped.
PolicyTable_UnmarshalBinary(t, b) ==
    LET nStrategies == b[3].v
        keys == {DecodedKey(b, j) : j \in 1..nStrategies}
        at == [k \in keys |-> CHOOSE j \in 1..nStrategies : DecodedKey(b, j) = k]
    IN  [t EXCEPT
           !.params = b[1].v,
           !.iter = b[2].v,
           !.policiesByKey = at,
           !.heap = [j \in 1..nStrategies |-> DecodedPolicy(b, j)],
           !.mayNeedUpdate = {},
           !.ptRet = [NoCall EXCEPT !.op = "UnmarshalBinary"],
           !.born = [k \in keys |->
                        [ptr |-> at[k], n |-> NumActions(DecodedPolicy(b, at[k]))]],
           !.fetched = [cur |-> [j \in 1..nStrategies |-> 0],
                        swept |-> [j \in 1..nStrategies |-> 0]]]

\* &PolicyTable{} (line 12), the table gob decodes into: no params, iter 0,
\* nil maps.
PolicyTable_Zero ==
    [params |-> "zero", iter |-> 0, policiesByKey |-> <<>>, mayNeedUpdate |-> {},
     heap |-> <<>>, ptRet |-> NoCall, born |-> <<>>, fetched |-> NoFetch]

\* A call of MarshalBinary, between two calls of Run.
MarshalBinary ==
    /\ ~Running
    /\ \E order \in KeyOrders(policiesByKey) :
          encoded' = PolicyTable_MarshalBinary(Table, order)
    /\ marshalled' = [marshalled EXCEPT !.table = Table]
    /\ UNCHANGED <<ptvars, trvars, rbvars>>

\* A call of UnmarshalBinary with the bytes MarshalBinary returned, on the
\* table as it is by now.
UnmarshalBinary ==
    /\ ~Running
    /\ encoded # <<>>
    /\ SetTable(PolicyTable_UnmarshalBinary(Table, encoded))
    /\ marshalled' = [marshalled EXCEPT !.into = Table]
    /\ UNCHANGED <<encoded, trvars, rbvars>>

\* A call of UnmarshalBinary with these bytes on &PolicyTable{}, which
\* then takes the place of the engine's table.
UnmarshalIntoZero ==
    /\ ~Running
    /\ encoded # <<>>
    /\ SetTable(PolicyTable_UnmarshalBinary(PolicyTable_Zero, encoded))
    /\ marshalled' = [marshalled EXCEPT !.into = PolicyTable_Zero]
    /\ UNCHANGED <<encoded, trvars, rbvars>>

\* A call of Run on the table being trained: before it is saved.
TrainingRun == encoded = <<>> /\ CSRun

\* The chance-sampling engine trains a table, which is then saved and loaded.
GobNext ==
    \/ TrainingRun
    \/ CSTerminal
    \/ CSHandleChanceNode
    \/ CSHandlePlayerNode
    \/ CSLoopChild
    \/ CSLoopEnd
    \/ CSReturn
    \/ UpdateProfile
    \/ MarshalBinary
    \/ UnmarshalBinary
    \/ UnmarshalIntoZero

SpecRB == RBInit /\ [][RBNext]_vars

SpecResume == ResumeInit /\ [][ResumeNext]_vars

SpecOrder == OrderInit /\ [][OrderNext]_vars

SpecUniform == UniformInit /\ [][UniformNext]_vars

SpecPT == PTInit /\ [][PTNext]_vars

SpecRS == RSInit /\ [][RSNext]_vars

SpecCS == CSInit /\ [][CSNext]_vars

SpecCFR == CFRInit /\ [][CFRNext]_vars

SpecGob == CSInit /\ [][GobNext]_vars

(***************************************************************************)
(* Properties of the reservoir buffer under concurrent producers (SpecRB). *)
(***************************************************************************)
Min(a, b) == IF a < b THEN a ELSE b

\* The records of the buffer's own store.
Stored == disk[path].kv

\* The keys of slots 0 .. k-1.
SlotKeys(k) == {PutUvarint(i) : i \in 0..(k - 1)}

\* How many times x occurs in the sequence q.
Count(q, x) == Cardinality({i \in 1..Len(q) : q[i] = x})

\* The buffer NewReservoirBuffer built, its store open.
Serving == original /\ db = "open" /\ ~panicked

\* C1: on a buffer that started empty with n = 0, once N AddSample calls have
\* returned the store holds exactly min(N, C) records, their keys are those of
\* slots 0 .. min(N,C)-1, and GetSamples returns min(N, C) samples.
C1_StoreSize ==
    (Serving /\ Quiet) =>
        LET k == Min(Len(hist), maxSize)
        IN  /\ Len(Stored) = k
            /\ StoreKeys(Stored) = SlotKeys(k)
            /\ Len(GetSamples(Stored)) = k
            /\ (ret.op = "GetSamples" => Len(ret.val) <= k)

\* C1 witness: more calls than the capacity have returned and GetSamples was
\* then called, returning as many samples as the capacity.
C1_Witness ==
    /\ Serving /\ Quiet
    /\ Len(hist) > maxSize
    /\ maxSize > 1
    /\ ret.op = "GetSamples"
    /\ ret.val = GetSamples(Stored)
    /\ Len(ret.val) = maxSize

\* C2: while at most C calls were made, the i-th sample is at slot i-1 and
\* stays there, and GetSamples returns every sample passed in.
C2_NoLoss ==
    (Serving /\ n <= maxSize) =>
        /\ \A i \in 1..Len(hist) :
              /\ PutUvarint(i - 1) \in StoreKeys(Stored)
              /\ gobDecodeSample(StoreGet(Stored, PutUvarint(i - 1))) = hist[i].s
        /\ Quiet =>
              \A s \in Samples :
                  Count(GetSamples(Stored), s) = Count([i \in 1..Len(hist) |-> hist[i].s], s)

\* C2 witness: the buffer was filled to its capacity with distinct samples and
\* GetSamples returned them.
C2_Witness ==
    /\ Serving /\ Quiet
    /\ n = maxSize /\ maxSize > 1
    /\ Len(hist) = maxSize
    /\ hist[1].s # hist[2].s
    /\ ret.op = "GetSamples"
    /\ ret.val = [i \in 1..Len(hist) |-> hist[i].s]

\* The goroutines inside AddSample's critical section.
Inside == {w \in Workers : wk[w].pc # "idle"}

\* The goroutines that have read n at line 274.
Branched == {w \in Workers : wk[w].pc \in {"fill", "draw", "drawn", "unlock"}}

\* C3: the increment, the decision and the write are one atomic step under
\* the mutex: at most one call is inside, no two calls observe the same n,
\* the count is the number of calls when none is inside, no two fill-phase
\* calls write the same slot, and the store holds min(n, C) records whenever
\* the lock is free.
C3_Atomic ==
    Serving =>
        /\ Cardinality(Inside) <= 1
        /\ mx = (Inside # {})
        /\ \A i, j \in 1..Len(hist) : i # j => hist[i].n # hist[j].n
        /\ \A w \in Branched : \A i \in 1..Len(hist) : hist[i].n # wk[w].n
        /\ \A v, w \in Branched : v # w => wk[v].n # wk[w].n
        /\ Quiet => n = Len(hist)
        /\ \A i, j \in 1..Len(hist) :
              (i # j /\ InFill(hist[i].n, maxSize) /\ InFill(hist[j].n, maxSize))
                  => hist[i].slot # hist[j].slot
        /\ ~mx => Len(Stored) = Min(n, maxSize)

\* C3 witness: both goroutines have had calls return, in the fill phase and
\* after it, while the other goroutine is inside a further call.
C3_Witness ==
    /\ Serving
    /\ Len(hist) >= 2
    /\ hist[1].n = 1 /\ hist[2].n = 2
    /\ maxSize = 1
    /\ wk["w2"].pc = "drawn"
    /\ wk["w2"].n = 3

\* A step in which goroutine w executes lines 278-280 with the store open.
ReplaceStep(w) == wk[w].pc = "drawn" /\ wk'[w].pc = "unlock"

\* C4: with the buffer full, a draw m < C replaces the content of slot m and
\* leaves every other slot as it was (an upsert: the keys of distinct slots
\* are distinct), a draw m >= C changes no slot, and C slots stay stored.
C4_ReplaceFrame ==
    [][\A w \in Workers :
          (Serving /\ ReplaceStep(w)) =>
              LET m == wk[w].m
                  before == disk[path].kv
                  after == disk'[path].kv
              IN  /\ n > maxSize
                  /\ m \in 0..(n - 1)
                  /\ \A i, j \in 0..(maxSize - 1) :
                        i # j => PutUvarint(i) # PutUvarint(j)
                  /\ Len(after) = maxSize
                  /\ StoreKeys(after) = StoreKeys(before)
                  /\ IF m < maxSize
                     THEN /\ PutUvarint(m) \in StoreKeys(after)
                          /\ gobDecodeSample(StoreGet(after, PutUvarint(m))) = wk[w].s
                          /\ \A k \in StoreKeys(before) \ {PutUvarint(m)} :
                                StoreGet(after, k) = StoreGet(before, k)
                     ELSE after = before
                  /\ \A q \in Paths \ {path} : disk'[q] = disk[q]
      ]_vars

\* C4 witness: with the buffer full, one call has replaced a slot with a new
\* sample and another call has discarded its sample.
C4_Witness ==
    /\ Serving /\ Quiet
    /\ \E i, j \in 1..Len(hist) :
          /\ hist[i].n > maxSize /\ hist[i].slot >= 0
          /\ hist[i].slot < maxSize
          /\ gobDecodeSample(StoreGet(Stored, PutUvarint(hist[i].slot))) = hist[i].s
          /\ hist[1].s # hist[i].s
          /\ hist[j].n > maxSize /\ hist[j].slot = -1

(***************************************************************************)
(* The order of GetSamples (SpecOrder).                                    *)
(***************************************************************************)
\* The stored samples listed by ascending slot index.
BySlot(st) ==
    [i \in 1..Len(st) |-> gobDecodeSample(StoreGet(st, PutUvarint(i - 1)))]

\* C5: GetSamples returns the stored samples by ascending slot index
\* 0, 1, ..., min(n,C)-1.
C5_SlotOrder ==
    (Serving /\ ret.op = "GetSamples" /\ StoreKeys(Stored) = SlotKeys(Len(Stored)))
        => GetSamples(Stored) = BySlot(Stored)

(***************************************************************************)
(* Uniformity of the reservoir (SpecUniform).                              *)
(***************************************************************************)
\* Whether sample s is among the records st.
Holds(st, s) == \E j \in 1..Len(st) : gobDecodeSample(st[j].value) = s

\* The number of draw sequences so far, and of those that retain sample s.
Outcomes == SumOver(DOMAIN dist, dist)
Retaining(s) ==
    SumOver(DOMAIN dist, [st \in DOMAIN dist |-> IF Holds(st, s) THEN dist[st] ELSE 0])

\* C6: once n >= C samples were passed, each of them is retained in the
\* fraction C/n of the equally likely draw sequences; the store the buffer
\* actually holds is one of the counted outcomes.
C6_Uniform ==
    (Serving /\ Quiet /\ dist # NoDist /\ n >= maxSize) =>
        /\ Stored \in DOMAIN dist
        /\ dist[Stored] > 0
        /\ \A i \in 1..n : Retaining(i) * n = maxSize * Outcomes

\* C6 witness: well past the capacity, with several outcomes counted and the
\* first sample no longer in the store the buffer holds.
C6_Witness ==
    /\ Serving /\ Quiet /\ dist # NoDist
    /\ maxSize >= 2
    /\ n >= maxSize + 2
    /\ Cardinality(DOMAIN dist) > maxSize
    /\ ~Holds(Stored, 1)
    /\ Holds(Stored, n)

(***************************************************************************)
(* Saving and reloading the metadata (SpecResume).                         *)
(***************************************************************************)
\* A step in which GobDecode builds the buffer of a new process.
DecodeStep == ~Built /\ Built'

\* The location recorded in the saved metadata.
SavedPath == DecodeMeta(saved[1]).path

\* C7: GobDecode reopens the store in the mode that fails when the store is
\* missing; with no store at the recorded location it returns an error and
\* neither creates nor attaches a store.
C7_ReloadNeedsStore ==
    [][DecodeStep =>
          /\ opts'.ErrorIfMissing
          /\ ~disk[SavedPath].exists =>
                /\ ret'.op = "GobDecode" /\ ret'.err
                /\ disk' = disk
                /\ db' = "nil"
      ]_vars

\* C7 witness: metadata saved with ErrorIfMissing unset was reloaded after
\* the store was lost, and the reload failed leaving no store and no handle.
C7_Witness ==
    /\ saved # <<>>
    /\ ~DecodeMeta(saved[1]).opts.ErrorIfMissing
    /\ ret.op = "GobDecode" /\ ret.err
    /\ path = SavedPath
    /\ ~disk[path].exists
    /\ db = "nil"

\* The last call to return was a successful GobDecode of metadata that was
\* saved with no AddSample in progress, and no AddSample has begun since.
Resumed ==
    /\ ret.op = "GobDecode" /\ ~ret.err
    /\ snap.fresh /\ snap.quiet

\* C8: metadata saved after N calls and reloaded gives a buffer with the same
\* location, the same capacity, n = N and the same slot contents, so that
\* its next AddSample does what the (N+1)-th call of the saved buffer would.
C8_Resume ==
    Resumed =>
        /\ db = "open"
        /\ path = snap.path
        /\ maxSize = snap.maxSize
        /\ n = snap.n
        /\ snap.original => n = snap.calls
        /\ disk[path] = snap.store
        /\ \A s \in Samples : \A m \in Intn(n + 1) :
              SeqResult(Stored, n + 1, maxSize, m, s)
                  = SeqResult(snap.store.kv, snap.n + 1, snap.maxSize, m, s)

\* C8 witness: a buffer saved past its capacity, with two different samples
\* stored, was reloaded in a new process.
C8_Witness ==
    /\ Resumed
    /\ restarts > 0
    /\ snap.original
    /\ maxSize = 2
    /\ n > maxSize
    /\ Len(Stored) = 2
    /\ Stored[1].value # Stored[2].value

(***************************************************************************)
(* Properties of the policy table (SpecPT).                                *)
(***************************************************************************)
\* A step that is a call GetPolicy(node) for a key that has a Policy of
\* another size than the node's number of children.
MismatchStep ==
    /\ ptRet'.op = "GetPolicy"
    /\ ptRet'.key \in DOMAIN policiesByKey
    /\ NumActions(heap[policiesByKey[ptRet'.key]]) # ptRet'.nc

\* C9: GetPolicy for a key whose Policy has another action count than
\* node.NumChildren() panics; the stored Policy is neither replaced nor
\* resized and the call adds nothing to the touched set.
C9_MismatchPanics ==
    [][MismatchStep =>
          /\ ptRet'.panic
          /\ policiesByKey' = policiesByKey
          /\ heap' = heap
          /\ mayNeedUpdate' = mayNeedUpdate
          /\ iter' = iter
      ]_vars

\* C9 witness: after an Update emptied the touched set, a call for a stored
\* key with another number of children panicked; the Policy is untouched.
C9_Witness ==
    /\ ptRet.op = "GetPolicy" /\ ptRet.panic
    /\ ptRet.key \in DOMAIN policiesByKey
    /\ NumActions(heap[policiesByKey[ptRet.key]]) # ptRet.nc
    /\ iter > 1
    /\ policiesByKey[ptRet.key] \notin mayNeedUpdate

\* C10: each key has at most one Policy, the one created by the first
\* GetPolicy for it with the node's number of children; every GetPolicy that
\* returns gives that Policy, and its action count never changes.
C10_OnePolicyPerKey ==
    /\ DOMAIN born = DOMAIN policiesByKey
    /\ Len(heap) = Cardinality(DOMAIN policiesByKey)
    /\ \A k \in DOMAIN policiesByKey :
          /\ policiesByKey[k] = born[k].ptr
          /\ policiesByKey[k] \in 1..Len(heap)
          /\ NumActions(heap[policiesByKey[k]]) = born[k].n
    /\ \A j, k \in DOMAIN policiesByKey : j # k => policiesByKey[j] # policiesByKey[k]
    /\ (ptRet.op = "GetPolicy" /\ ~ptRet.panic) =>
          /\ ptRet.key \in DOMAIN born
          /\ ptRet.val = born[ptRet.key].ptr
          /\ ptRet.nc = born[ptRet.key].n

\* C10 witness: two keys have policies of different sizes, and the Policy
\* just returned had been fetched before and was updated in between.
C10_Witness ==
    /\ ptRet.op = "GetPolicy" /\ ~ptRet.panic
    /\ Cardinality(DOMAIN policiesByKey) = 2
    /\ \E j, k \in DOMAIN policiesByKey :
          NumActions(heap[policiesByKey[j]]) # NumActions(heap[policiesByKey[k]])
    /\ heap[ptRet.val].updates # <<>>
    /\ iter > 1

\* The Policies GetPolicy returned since the previous Update.
Fetched == {np \in 1..Len(heap) : fetched.cur[np] > 0}

\* A step that is a call of Update.
UpdateStep == ptRet'.op = "Update"

\* C11: Update calls NextStrategy exactly once, with the discount factors of
\* the iteration number before the increment, on every Policy GetPolicy
\* returned since the previous Update, however often it was fetched, and on
\* no other Policy; afterwards the touched set is empty and the iteration
\* counter, which starts at 1, is one larger.  GetPolicy leaves the counter
\* alone.
C11_UpdateOncePerTouched ==
    /\ iter = 1
    /\ [](mayNeedUpdate = Fetched)
    /\ [][/\ UpdateStep =>
               /\ Len(heap') = Len(heap)
               /\ \A np \in 1..Len(heap) :
                     IF np \in Fetched
                     THEN /\ heap'[np].updates =
                                Append(heap[np].updates, GetDiscountFactors(params, iter))
                          /\ heap'[np].updates[Len(heap'[np].updates)].iter = iter
                     ELSE heap'[np] = heap[np]
               /\ mayNeedUpdate' = {}
               /\ iter' = iter + 1
          /\ ptRet'.op = "GetPolicy" => iter' = iter
       ]_vars

\* C11 witness: a second Update has run; it updated a Policy that had been
\* fetched more than once, for the second time, and left alone a Policy
\* that had not been fetched since the first Update.
C11_Witness ==
    /\ ptRet.op = "Update"
    /\ iter = 3
    /\ mayNeedUpdate = {}
    /\ \E np, nq \in 1..Len(heap) :
          /\ fetched.swept[np] = 2
          /\ Len(heap[np].updates) = 2
          /\ heap[np].updates[2].iter = 2
          /\ fetched.swept[nq] = 0
          /\ Len(heap[nq].updates) = 1
          /\ heap[nq].updates[1].iter = 1

(***************************************************************************)
(* Properties of the robust-sampling engine (SpecRS).                      *)
(***************************************************************************)
\* The places in calls of the calls of GetChild made on a node of the
\* player that is not traversing.
OpponentVisits ==
    {j \in 1..Len(calls) :
        /\ calls[j].op = "GetChild"
        /\ game[calls[j].node].player # traversingPlayer}

\* The infoset key of the node of the j-th call.
KeyAt(j) == game[calls[j].node].key

\* Within the Run in progress, or the last one, all visits to nodes of the
\* other player with the same infoset key went into the same child index.
SameActionPerKey ==
    \A a, b \in OpponentVisits : KeyAt(a) = KeyAt(b) => calls[a].i = calls[b].i

\* A step that is a call of Run.
RunStep == runs' = runs + 1

\* C12: within one Run every visit to a node of the non-traversing player
\* with the same infoset key recurses into the same child index, the one
\* sampled on the first visit; every Run starts with an empty cache.
C12_ActionCache ==
    /\ [](SameActionPerKey /\
          \A a \in OpponentVisits : sampledActions[KeyAt(a)] = calls[a].i)
    /\ [][RunStep => sampledActions' = <<>>]_vars

\* C12 witness: in a second Run two different nodes with the same key were
\* visited and went into the same child, another one than the first Run had
\* cached for that key.
C12_Witness ==
    /\ runs = 2
    /\ \E a, b \in OpponentVisits :
          /\ calls[a].node # calls[b].node
          /\ KeyAt(a) = KeyAt(b)
          /\ calls[a].i = calls[b].i
          /\ KeyAt(a) \in DOMAIN lastRun
          /\ lastRun[KeyAt(a)] # calls[a].i

(***************************************************************************)
(* Properties of both traversal engines (SpecCFR).                         *)
(***************************************************************************)
RECURSIVE Subtree(_, _, _)
\* The nodes of the subtree of x in the tree g; d bounds the depth.
Subtree(g, x, d) ==
    IF d = 0 THEN {x}
    ELSE {x} \cup UNION {Subtree(g, g[x].children[j], d - 1) : j \in 1..Len(g[x].children)}

\* Per game and node, the nodes below it.
Descendants ==
    [g \in Games |-> [x \in 1..Len(g) |-> Subtree(g, x, Len(g)) \ {x}]]

Below(x) == Descendants[game][x]

\* The places in calls where the node x was visited: the root when Run was
\* called, any other node when GetChild or SampleChild returned it.
VisitsOf(x) ==
    {j \in 1..Len(calls) :
        \/ calls[j].op = "Run" /\ x = 1
        \/ calls[j].op \in {"GetChild", "SampleChild"} /\ calls[j].v = x}

ClosesOf(x) == {j \in 1..Len(calls) : calls[j].op = "Close" /\ calls[j].node = x}

Visited == {x \in 1..Len(game) : VisitsOf(x) # {}}

\* The places in calls of the calls that compute the value of x itself: the
\* utility of a Terminal node, the regret update of a Player node that is
\* traversed.
ValueCallsOf(x) ==
    {j \in 1..Len(calls) :
        /\ calls[j].op \in {"Utility", "AddRegret"}
        /\ calls[j].node = x}

\* C13: every node a traversal visits is closed exactly once, after its own
\* value was computed and after every node visited below it was closed; when
\* Run has returned no visited node is left unclosed.
C13_ClosedOnce ==
    /\ \A x \in 1..Len(game) :
          /\ Cardinality(ClosesOf(x)) <= 1
          /\ \A j \in ClosesOf(x) :
                /\ \E v \in VisitsOf(x) : v < j
                /\ \A v \in ValueCallsOf(x) : v < j
                /\ Type(game, x) = "Terminal" => ValueCallsOf(x) # {}
                /\ \A y \in Below(x) :
                      /\ \A v \in VisitsOf(y) : v < j
                      /\ VisitsOf(y) # {} => \E cl \in ClosesOf(y) : cl < j
    /\ (runRet.done /\ ~Running) =>
          \A x \in Visited : Cardinality(ClosesOf(x)) = 1
    /\ \A x \in 1..Len(game) :
          (ClosesOf(x) = {} /\ x \in Visited) =>
              \E d \in 1..Len(stack) : stack[d].node = x

\* C13 witness: a Run has returned that went through a Chance node and a
\* Player node; every node it visited is closed, the root last.
C13_Witness ==
    /\ runRet.done /\ ~Running
    /\ \E x, y \in Visited : Type(game, x) = "Chance" /\ Type(game, y) = "Player"
    /\ Cardinality(Visited) >= 4
    /\ \A x \in Visited : Cardinality(ClosesOf(x)) = 1
    /\ calls[Len(calls)].op = "Close" /\ calls[Len(calls)].node = 1

\* C14: for every game tree, also one whose root is a Chance node, Player()
\* is never called on a Chance node, Utility() only on Terminal nodes and
\* GetChildProbability() only on Chance nodes.
C14_CallPreconditions ==
    \A j \in 1..Len(calls) :
        /\ calls[j].op = "Player" => Type(game, calls[j].node) # "Chance"
        /\ calls[j].op = "Utility" => Type(game, calls[j].node) = "Terminal"
        /\ calls[j].op = "GetChildProbability" => Type(game, calls[j].node) = "Chance"

(***************************************************************************)
(* The expectation of what Run returns, over the random choices of the     *)
(* robust-sampling engine.                                                 *)
(***************************************************************************)
RECURSIVE RSumOver(_, _)
\* The sum of f[x] over the x of S.
RSumOver(S, f) ==
    IF S = {} THEN RInt(0)
    ELSE LET x == CHOOSE y \in S : TRUE
         IN  RAdd(f[x], RSumOver(S \ {x}, f))

\* The probability with which lines 116-122 arrive at the action i: the
\* cached action is certain, sampleOne follows the current strategy.
SampledProb(c, i) ==
    LET f == Top(c)
        x == f.node
        key == InfoSetKey(c.game, x, c.game[x].player)
        t1 == PolicyTable_GetPolicy(c.t, key, NumChildren(c.game, x))
    IN  IF CacheLookup(c.sampledActions, key).ok THEN RInt(1)
        ELSE GetStrategy(t1.heap[t1.ptRet.val])[i + 1]

\* No value: the pool's choice of a buffer changes the expectation.
Undetermined == <<0, 0>>

RECURSIVE ExpectedReturn(_)
\* The expectation of Run's return value from the state c of a Run on: each
\* SampleChild, rand.Shuffle and sampleOne is weighed by the probability of
\* its outcome; the buffer alloc hands out is no random choice, and the
\* expectation must be the same for each.
ExpectedReturn(c) ==
    IF c.stack = <<>> THEN c.runRet.val
    ELSE
    LET f == Top(c)
        x == f.node
        cnt == NumChildren(c.game, x)
    IN  IF f.pc = "enter" /\ Type(c.game, x) = "Terminal"
        THEN ExpectedReturn(rsTerminal(c))
        ELSE IF f.pc = "enter" /\ Type(c.game, x) = "Chance"
        THEN LET S == SampleChildResults(c.game, x)
             IN  RSumOver(S, [i \in S |->
                     RMul(c.game[x].probs[i + 1],
                          ExpectedReturn(rsHandleChanceNode(c, i)))])
        ELSE IF f.pc = "enter" /\ c.game[x].player = c.traversingPlayer
        THEN LET S == Shufflings(c.cfr.k, cnt)
                 A == AllocChoices(c.cfr.slicePool, cnt)
                 E == [ch \in A |->
                         RSumOver(S, [s \in S |->
                             RMul(Rat(1, Cardinality(S)),
                                  ExpectedReturn(rsHandleTraversingPlayerNode(c, s, ch)))])]
                 any == CHOOSE ch \in A : TRUE
             IN  IF \A ch \in A : E[ch] = E[any] THEN E[any] ELSE Undetermined
        ELSE IF f.pc = "enter"
        THEN LET S == SampledChoices(c)
             IN  RSumOver(S, [i \in S |->
                     RMul(SampledProb(c, i),
                          ExpectedReturn(rsHandleSampledPlayerNode(c, i)))])
        ELSE IF f.pc = "loop" /\ f.pos <= Len(f.selected)
        THEN ExpectedReturn(rsLoopChild(c))
        ELSE IF f.pc = "loop"
        THEN ExpectedReturn(rsLoopEnd(c))
        ELSE ExpectedReturn(rsReturn(c))

\* The current strategy at the node x: that of the Policy of its infoset
\* key, uniform when the table has none yet.
StrategyAt(g, t, x) ==
    IF g[x].key \in DOMAIN t.policiesByKey
    THEN GetStrategy(t.heap[t.policiesByKey[g[x].key]])
    ELSE GetStrategy(PolicyNew(NumChildren(g, x)))

RECURSIVE TrueValue(_, _, _, _)
\* The expected utility for the player pl of the subtree of x when chance
\* follows its probabilities and both players the current strategy profile.
TrueValue(g, t, x, pl) ==
    IF Type(g, x) = "Terminal" THEN RInt(Utility(g, x, pl))
    ELSE LET w == IF Type(g, x) = "Chance" THEN g[x].probs ELSE StrategyAt(g, t, x)
             J == 1..NumChildren(g, x)
         IN  RSumOver(J, [j \in J |-> RMul(w[j], TrueValue(g, t, g[x].children[j], pl))])

\* Run was called and has not yet entered the root.
RunCalled == Len(stack) = 1 /\ stack[1].pc = "enter" /\ Len(calls) = 2

\* C15: the expectation of the value Run returns, over all random choices
\* of the robust-sampling engine, is the expected value of the game under
\* the current strategy profile.
C15_Unbiased ==
    (cfr.kind = "robust" /\ RunCalled) =>
        ExpectedReturn(Cfg) = TrueValue(game, Table, 1, stack[1].lastPlayer)

\* The places in calls of the calls of AddRegret, and of the calls of
\* GetChild made on the node x.
RegretCalls == {j \in 1..Len(calls) : calls[j].op = "AddRegret"}
ChildCallsOf(x) ==
    {j \in 1..Len(calls) : calls[j].op = "GetChild" /\ calls[j].node = x}

\* The nodes of the player that is traversing.
TraversedNodes ==
    {x \in 1..Len(game) :
        Type(game, x) = "Player" /\ game[x].player = traversingPlayer}

\* C17: at a node of the traversing player the engine recurses into exactly
\* min(k, numChildren) children, with pairwise distinct action indices in
\* 0..numChildren-1, and calls AddRegret on the node's policy exactly once,
\* after all these recursions have returned.
C17_SelectedChildren ==
    /\ \A x \in TraversedNodes :
          LET G == ChildCallsOf(x)
              R == {j \in RegretCalls : calls[j].node = x}
          IN  /\ Cardinality(G) <= Min(cfr.k, NumChildren(game, x))
              /\ Cardinality({calls[g].i : g \in G}) = Cardinality(G)
              /\ \A g \in G : calls[g].i \in 0..(NumChildren(game, x) - 1)
              /\ Cardinality(R) <= 1
              /\ ClosesOf(x) # {} => Cardinality(R) = 1
              /\ \A j \in R :
                    /\ Cardinality(G) = Min(cfr.k, NumChildren(game, x))
                    /\ calls[j].i = policiesByKey[game[x].key]
                    /\ \A g \in G :
                          /\ g < j
                          /\ \E cl \in ClosesOf(calls[g].v) : g < cl /\ cl < j
    /\ \A j \in RegretCalls : calls[j].node \in TraversedNodes

\* C17 witness: AddRegret was called at a node with three children of which
\* two were sampled, the last child among them.
C17_Witness ==
    \E j \in RegretCalls :
        LET x == calls[j].node
        IN  /\ NumChildren(game, x) = 3
            /\ Cardinality(ChildCallsOf(x)) = 2
            /\ \E g \in ChildCallsOf(x) : calls[g].i = 2

\* The value runHelper returned for the node y.
ReturnedBy(y) == calls[CHOOSE cl \in ClosesOf(y) : TRUE].v

\* C18: at a node of the traversing player where fewer than numChildren
\* actions are sampled, the vector passed to AddRegret holds the returned
\* value minus cfValue at each sampled action and zero at each action that
\* was not sampled.
C18_SampledRegretsOnly ==
    \A j \in RegretCalls :
        LET x == calls[j].node
            sel == {calls[j].v.selected[s] : s \in 1..Len(calls[j].v.selected)}
        IN  Cardinality(sel) < NumChildren(game, x) =>
                \A a \in 0..(NumChildren(game, x) - 1) :
                    IF a \in sel
                    THEN calls[j].v.regrets[a + 1] =
                            RAdd(ReturnedBy(GetChild(game, x, a)),
                                 RMinus(calls[j].v.cfValue))
                    ELSE calls[j].v.regrets[a + 1] = RInt(0)

RECURSIVE ProdOver(_, _)
\* The product of f[x] over the x of S.
ProdOver(S, f) ==
    IF S = {} THEN 1
    ELSE LET x == CHOOSE y \in S : TRUE
         IN  f[x] * ProdOver(S \ {x}, f)

\* The nodes on the path from the root to x, x excluded.
Above(x) == {y \in 1..Len(game) : x \in Below(y)}

\* The product of numChildren over the nodes of the traversing player on
\* the path from the root to x.
TravProduct(x) ==
    LET S == Above(x) \cap TraversedNodes
    IN  ProdOver(S, [y \in S |-> NumChildren(game, y)])

\* The player of the nearest Player node above x; what Player() returned
\* for the root when there is none.
ActedLast(x) ==
    LET S == {y \in Above(x) : Type(game, y) = "Player"}
    IN  IF S = {} THEN calls[2].i
        ELSE game[CHOOSE y \in S : \A z \in S \ {y} : y \in Below(z)].player

\* C19: the value computed at a Terminal node is Utility(lastPlayer) divided
\* by the accumulated sampling probability, which is 1 at the root, is
\* multiplied by 1/numChildren at each node of the traversing player on the
\* path and is left as it is by Chance nodes and by nodes of the other
\* player: the utility times the product of numChildren over the nodes of
\* the traversing player on the path.
C19_TerminalValue ==
    \A d \in 1..Len(stack) :
        LET f == stack[d]
            x == f.node
        IN  /\ f.sampleProb = Rat(1, TravProduct(x))
            /\ f.lastPlayer = ActedLast(x)
            /\ (Type(game, x) = "Terminal" /\ f.pc = "close") =>
                  /\ f.ev = RDiv(RInt(Utility(game, x, f.lastPlayer)), f.sampleProb)
                  /\ f.ev = RInt(Utility(game, x, f.lastPlayer) * TravProduct(x))

\* C19 witness: a Terminal node below two nodes of the traversing player and
\* a node of the other player has its value, four times its utility.
C19_Witness ==
    /\ Running
    /\ LET f == stack[Len(stack)]
       IN  /\ Type(game, f.node) = "Terminal" /\ f.pc = "close"
           /\ TravProduct(f.node) = 4
           /\ \E y \in Above(f.node) :
                 Type(game, y) = "Player" /\ game[y].player # traversingPlayer
           /\ f.ev # RInt(0)
           /\ f.ev = RInt(4 * Utility(game, f.node, f.lastPlayer))

(***************************************************************************)
(* Properties of the saved and loaded policy table (SpecGob).              *)
(***************************************************************************)
\* What of a Policy is data: its action count and its vectors.
PolicyData(p) == <<p.nActions, p.regretSum, p.strategySum>>

\* C16: MarshalBinary followed by UnmarshalBinary yields a table with the
\* same discount parameters, the same iteration counter, the same set of
\* infoset keys and, for every key, a Policy equal to the original: same
\* action count, regret vector and strategy-sum vector.
C16_RoundTrip ==
    ptRet.op = "UnmarshalBinary" =>
        LET was == marshalled.table
        IN  /\ params = was.params
            /\ iter = was.iter
            /\ DOMAIN policiesByKey = DOMAIN was.policiesByKey
            /\ \A k \in DOMAIN policiesByKey :
                  /\ policiesByKey[k] \in 1..Len(heap)
                  /\ PolicyData(heap[policiesByKey[k]])
                        = PolicyData(was.heap[was.policiesByKey[k]])

\* C16 witness: a table of two policies with different regrets, saved
\* after an Update, was loaded into a table that had another iteration
\* counter and other keys.
C16_Witness ==
    /\ ptRet.op = "UnmarshalBinary"
    /\ iter = 2
    /\ marshalled.into.iter # iter
    /\ DOMAIN marshalled.into.policiesByKey # DOMAIN policiesByKey
    /\ Cardinality(DOMAIN policiesByKey) = 2
    /\ \E j, k \in DOMAIN policiesByKey :
          /\ heap[policiesByKey[j]].regretSum # heap[policiesByKey[k]].regretSum
          /\ \E a \in 1..heap[policiesByKey[j]].nActions :
                /\ heap[policiesByKey[j]].regretSum[a] # RInt(0)
                /\ heap[policiesByKey[j]].strategySum[a] # RInt(0)

(***************************************************************************)
(* Properties of the chance-sampling traversal (SpecCS).                   *)
(***************************************************************************)
\* The Player nodes of the game, and whether it has a Chance node.
PlayerNodes == {x \in 1..Len(game) : Type(game, x) = "Player"}
HasChance == \E x \in 1..Len(game) : Type(game, x) = "Chance"

\* The children of every Player node are entered in index order, and all of
\* them before AddRegret is called on the node's policy.
AllChildrenInOrder ==
    \A x \in PlayerNodes :
        LET G == ChildCallsOf(x)
            R == {j \in RegretCalls : calls[j].node = x}
        IN  /\ \A g \in G :
                  /\ calls[g].i = Cardinality({h \in G : h < g})
                  /\ calls[g].v = GetChild(game, x, calls[g].i)
            /\ Cardinality(G) <= NumChildren(game, x)
            /\ Cardinality(R) <= 1
            /\ ClosesOf(x) # {} => Cardinality(R) = 1
            /\ \A j \in R :
                  /\ Cardinality(G) = NumChildren(game, x)
                  /\ \A g \in G : g < j

\* Each activation of runHelper below a Player node is on the child the
\* node's loop is at, with the reach probability of the acting player
\* multiplied by the current strategy's probability of that child and the
\* reach probability of the other player as it is at the node.
ChildReachScaled ==
    \A d \in 2..Len(stack) :
        LET f == stack[d - 1]
            ch == stack[d]
            p == StrategyAt(game, Table, f.node)[f.pos + 1]
        IN  Type(game, f.node) = "Player" =>
                /\ f.pc = "loopWait"
                /\ ch.node = GetChild(game, f.node, f.pos)
                /\ ch.lastPlayer = game[f.node].player
                /\ IF game[f.node].player = 0
                   THEN ch.reachP0 = RMul(p, f.reachP0) /\ ch.reachP1 = f.reachP1
                   ELSE ch.reachP1 = RMul(p, f.reachP1) /\ ch.reachP0 = f.reachP0

\* Run returns in this step.
RunReturns == ~runRet.done /\ runRet'.done

\* C20: the chance-sampling engine visits all children of every Player node
\* in index order, entering child i with only the acting player's reach
\* probability multiplied by the current strategy's probability of i; on a
\* tree without Chance nodes Run returns the expected utility of the root's
\* acting player under the current strategy profile.
C20_FullTraversal ==
    /\ [](cfr.kind = "chance" => AllChildrenInOrder /\ ChildReachScaled)
    /\ [][(cfr.kind = "chance" /\ RunReturns /\ ~HasChance) =>
              runRet'.val = TrueValue(game, Table', 1, game[1].player)]_vars

\* C20 witness: the second Run on the game with a shared infoset has
\* returned; the strategy at the root is no longer uniform, and an
\* activation two levels below the root was entered.
C20_Witness ==
    /\ cfr.kind = "chance"
    /\ game = GameShared
    /\ runs = 2
    /\ runRet.done
    /\ StrategyAt(game, Table, 1)[1] # StrategyAt(game, Table, 1)[2]
    /\ \A x \in PlayerNodes : Cardinality(ChildCallsOf(x)) = 2
    /\ runRet.val = TrueValue(game, Table, 1, 1)
    /\ runRet.val # RInt(0)

=============================================================================
